---- MODULE Spec2Model ----
(***************************************************************************)
(* A model of the news aggregator (src/main.py and src/backend): the        *)
(* deduplication engine, the recency filter, the needs-translation          *)
(* heuristic, the translation pipeline, the summarize-and-translate         *)
(* parsers, feed auto-discovery, the feed and page scrapers with their      *)
(* retry loop, source type resolution, one run of the aggregator, the       *)
(* retry/throttle wrapper with its robots.txt gate, the articles table,     *)
(* the source's limit, and the gathering of the scraped lists.  Each        *)
(* component has its own specification; the variables of the other          *)
(* components stay at their idle values.                                    *)
(***************************************************************************)
EXTENDS Integers, Sequences, FiniteSets, TLC

VARIABLES
    \* ---- deduplication (src/backend/processors/dedup.py, src/main.py) ----
    dedup_pc,         \* position in NewsAggregator.run around step 4
    db_articles,      \* rows returned by self.db.get_articles(limit=10000)
    all_articles,     \* the candidate list handed to deduplicate_articles
    existing_urls,    \* the set object existing_urls (mutated in place)
    existing_titles,  \* the set object existing_titles (mutated in place)
    pre_urls,         \* existing_urls as it was when the last call started
    pre_titles,       \* existing_titles as it was when the last call started
    url_pass,         \* local `articles` after deduplicate_by_url (line 89)
    unique_articles,  \* the list returned by the last call
    dedup_calls,      \* number of deduplicate calls made so far
    \* ---- recency filter (src/backend/scrapers/base.py) ----
    rf_pc,            \* "fetched" before the filter ran, "filtered" after
    rf_now,           \* the clock: what datetime.now() returns (line 114)
    rf_hours,         \* the `hours` argument of the last filter_recent call
    rf_articles,      \* the articles handed to the filter
    rf_filtered,      \* the articles the filter returned
    \* ---- needs-translation heuristic (main.py, translator.py) ----
    nt_text,          \* the string under test, one token per character
    nt_done,          \* which of the two implementations have been called
    nt_main,          \* result of NewsAggregator._needs_translation
    nt_translator,    \* result of Translator._needs_translation
    \* ---- summarize_and_translate (translator.py) ----
    sm_pc,            \* "ready" before the call, "returned" after
    sm_provider,      \* the configured translator type
    sm_reply,         \* what the provider's HTTP API does for this request
    sm_result,        \* what summarize_and_translate returned
    \* ---- translation stage of run() (main.py lines 83-117) ----
    tp_pc,            \* position in step 5 of run()
    tp_type,          \* Config.TRANSLATOR_TYPE
    tp_api_key,       \* whether the provider's API key is configured
    tp_translator,    \* self.translator: "None" or the provider's type
    tp_articles,      \* unique_articles, with the fields step 5 reads and sets
    tp_i,             \* position of the running loop in unique_articles
    tp_calls,         \* per article: the provider calls made for it
    \* ---- feed auto-discovery (src/backend/utils/rss_discoverer.py) ----
    dv_pc,            \* "ready" before discover(url), "discovered" after
    dv_page_ok,       \* whether the GET of the page succeeds (line 78-79)
    dv_links,         \* the <link rel="alternate"> tags of the page, in order
    dv_web,           \* what a GET of each candidate feed URL meets
    dv_feed,          \* the value discover returned
    dv_probes,        \* the URLs requested by the call, in order
    dv_feeds,         \* the list discover_all returned
    \* ---- feed and page scrapers (scrapers/rss.py, scrapers/blog.py) ----
    sc_pc,            \* "ready" before scrape(), "scraped" after
    sc_kind,          \* which scraper was constructed: "rss" or "blog"
    sc_url,           \* self.url of the scraper
    sc_limit,         \* the source's limit, from which config is built
    sc_raises,        \* how many of the first fetch() invocations raise
    sc_entries,       \* feed.entries of the parsed feed
    sc_page_ok,       \* whether the GET of the listing page succeeds
    sc_matches,       \* per selector, the elements soup.select returns
    sc_out,           \* the list scrape() returned
    sc_log,           \* the fetch() invocations and retry sleeps of the call
    \* Source resolution.
    rs_pc,            \* "props", "listed" or "resolved"
    rs_feed_url,      \* the Feed URL property of the source
    rs_url,           \* the URL property of the source
    rs_page_ok,       \* whether the GET of the page at rs_url succeeds
    rs_links,         \* the <link rel="alternate"> tags of that page
    rs_web,           \* what the feed candidates answer
    rs_type,          \* source['type']
    rs_actual_type,   \* actual_type of scrape_source
    rs_actual_url,    \* actual_url of scrape_source
    rs_scraper,       \* the scraper constructed, "none" when there is none
    rs_probes,        \* the requests discovery has made
    \* One run of the aggregator (NewsAggregator.run).
    rn_pc,            \* position in run()
    rn_sources,       \* what get_active_sources returned, with each source's fate
    rn_db,            \* which calls of the store raise, and the rows it holds
    rn_i,             \* position of the loop of step 3 in sources
    rn_attempt,       \* attempts fetch_with_retry has made for the source
    rn_result,        \* what scrape_source returned for the source
    rn_all,           \* all_articles
    rn_unique,        \* unique_articles
    rn_saved,         \* the articles upserted so far
    rn_log,           \* the scrapes begun, fetch attempts and update_last_fetched calls
    \* One call of AntiBotMixin.safe_request.
    sr_pc,            \* "ready", "loop" or "returned"
    sr_robots,        \* what robots.txt of the origin says about the URL
    sr_cached,        \* whether _robots_cache holds the origin
    sr_last_request,  \* whether _last_request_time is set
    sr_n,             \* the parameter max_retries
    sr_outcomes,      \* what each GET meets, in order
    sr_attempt,       \* iterations of the loop begun
    sr_gets,          \* session.get calls made
    sr_sleeps,        \* the time.sleep calls of the loop, in order
    sr_result,        \* "pending", "response" or "None"
    sr_calls,         \* safe_request calls begun on this instance
    sr_robots_reads,  \* rp.read() calls made by this instance
    \* The articles table of the store (Database.upsert_article).
    st_pc,            \* "open" once init_database has run
    st_rows,          \* the rows of the articles table, in insertion order
    st_prev,          \* the rows before the last upsert_article call
    st_upserts,       \* the articles upserted so far, in call order
    \* The source's limit and the number of articles a fetch returns.
    lm_pc,            \* "ready" before scraper.fetch(), "fetched" after
    lm_type,          \* actual_type of scrape_source
    lm_limit,         \* source.get('limit', 0)
    lm_offered,       \* how many items the feed, page or API has to give
    lm_returned,      \* how many articles fetch() returned
    \* Steps 3 and 4 of run() with the scrapes finishing in any order.
    ga_pc,            \* "scraping" or "deduped"
    ga_db,            \* the rows of the store when the run starts
    ga_results,       \* per source, the list scrape_source returns
    ga_running,       \* the sources whose scrape has not finished
    ga_order,         \* the sources in the order their scrapes finished
    ga_all,           \* all_articles
    ga_unique         \* unique_articles

dedupVars == <<dedup_pc, db_articles, all_articles, existing_urls,
               existing_titles, pre_urls, pre_titles, url_pass,
               unique_articles, dedup_calls>>

recencyVars == <<rf_pc, rf_now, rf_hours, rf_articles, rf_filtered>>

heuristicVars == <<nt_text, nt_done, nt_main, nt_translator>>

summarizeVars == <<sm_pc, sm_provider, sm_reply, sm_result>>
pipelineVars ==
    <<tp_pc, tp_type, tp_api_key, tp_translator, tp_articles, tp_i, tp_calls>>

discoverVars ==
    <<dv_pc, dv_page_ok, dv_links, dv_web, dv_feed, dv_probes, dv_feeds>>

scraperVars ==
    <<sc_pc, sc_kind, sc_url, sc_limit, sc_raises, sc_entries, sc_page_ok,
      sc_matches, sc_out, sc_log>>

resolveVars ==
    <<rs_pc, rs_feed_url, rs_url, rs_page_ok, rs_links, rs_web, rs_type,
      rs_actual_type, rs_actual_url, rs_scraper, rs_probes>>

runVars ==
    <<rn_pc, rn_sources, rn_db, rn_i, rn_attempt, rn_result, rn_all, rn_unique,
      rn_saved, rn_log>>

requestVars ==
    <<sr_pc, sr_robots, sr_cached, sr_last_request, sr_n, sr_outcomes,
      sr_attempt, sr_gets, sr_sleeps, sr_result, sr_calls, sr_robots_reads>>

storeVars == <<st_pc, st_rows, st_prev, st_upserts>>

limitVars == <<lm_pc, lm_type, lm_limit, lm_offered, lm_returned>>

gatherVars ==
    <<ga_pc, ga_db, ga_results, ga_running, ga_order, ga_all, ga_unique>>

vars ==
    <<dedupVars, recencyVars, heuristicVars, summarizeVars,
      pipelineVars, discoverVars, scraperVars, resolveVars,
      runVars, requestVars, storeVars, limitVars,
      gatherVars>>

(***************************************************************************)
(* Bounds of the model.                                                    *)
(***************************************************************************)
MaxBatch == 3
MaxDedupCalls == 2
MaxRecencyBatch == 2
\* Clock ticks (the resolution of datetime, one microsecond) per hour, scaled.
TicksPerHour == 1
\* The latest clock reading, in ticks.
MaxNow == 60
MaxTextLen == 10
MaxReplyLen == 4
MaxArticles == 2
MaxLinks == 2
MaxLive == 2
MaxEntries == 2
MaxElements == 1
MaxResolveLinks == 1
MaxResolveLive == 2
MaxSources == 2
MaxAttempts == 3
MaxCalls == 2
MaxUpserts == 2
MaxLimit == 2
\* The most items an endpoint has: one more than the largest default cap.
MaxOffered == 51
MaxWorkers == 2
MaxPerSource == 1

(***************************************************************************)
(* The idle values of each component's variables: a specification starts   *)
(* the components it does not exercise idle and leaves them so.             *)
(***************************************************************************)
DedupIdle ==
    /\ dedup_pc = "idle"
    /\ db_articles = {}
    /\ all_articles = <<>>
    /\ existing_urls = {}
    /\ existing_titles = {}
    /\ pre_urls = {}
    /\ pre_titles = {}
    /\ url_pass = <<>>
    /\ unique_articles = <<>>
    /\ dedup_calls = 0

RecencyIdle ==
    /\ rf_pc = "idle"
    /\ rf_now = 0
    /\ rf_hours = 0
    /\ rf_articles = <<>>
    /\ rf_filtered = <<>>

HeuristicIdle ==
    /\ nt_text = <<>>
    /\ nt_done = {"idle"}
    /\ nt_main = FALSE
    /\ nt_translator = FALSE

SummarizeIdle ==
    /\ sm_pc = "idle"
    /\ sm_provider = "None"
    /\ sm_reply = [fails |-> FALSE, content |-> <<>>]
    /\ sm_result = [raised |-> FALSE, summary |-> <<>>, translated |-> <<>>]

PipelineIdle ==
    /\ tp_pc = "idle"
    /\ tp_type = ""
    /\ tp_api_key = FALSE
    /\ tp_translator = "None"
    /\ tp_articles = <<>>
    /\ tp_i = 0
    /\ tp_calls = <<>>

\* No URL: the None that discover returns, an unset Notion property.
NoUrl == [origin |-> "", path |-> ""]

DiscoverIdle ==
    /\ dv_pc = "idle"
    /\ dv_page_ok = FALSE
    /\ dv_links = <<>>
    /\ dv_web = <<>>
    /\ dv_feed = NoUrl
    /\ dv_probes = <<>>
    /\ dv_feeds = <<>>

ScraperIdle ==
    /\ sc_pc = "idle"
    /\ sc_kind = "None"
    /\ sc_url = NoUrl
    /\ sc_limit = 0
    /\ sc_raises = 0
    /\ sc_entries = <<>>
    /\ sc_page_ok = FALSE
    /\ sc_matches = <<>>
    /\ sc_out = <<>>
    /\ sc_log = <<>>

ResolveIdle ==
    /\ rs_pc = "idle"
    /\ rs_feed_url = NoUrl
    /\ rs_url = NoUrl
    /\ rs_page_ok = FALSE
    /\ rs_links = <<>>
    /\ rs_web = <<>>
    /\ rs_type = ""
    /\ rs_actual_type = ""
    /\ rs_actual_url = NoUrl
    /\ rs_scraper = "none"
    /\ rs_probes = <<>>

RunIdle ==
    /\ rn_pc = "idle"
    /\ rn_sources = <<>>
    /\ rn_db = <<>>
    /\ rn_i = 0
    /\ rn_attempt = 0
    /\ rn_result = <<>>
    /\ rn_all = <<>>
    /\ rn_unique = <<>>
    /\ rn_saved = <<>>
    /\ rn_log = <<>>

RequestIdle ==
    /\ sr_pc = "idle"
    /\ sr_robots = ""
    /\ sr_cached = FALSE
    /\ sr_last_request = FALSE
    /\ sr_n = 0
    /\ sr_outcomes = <<>>
    /\ sr_attempt = 0
    /\ sr_gets = 0
    /\ sr_sleeps = <<>>
    /\ sr_result = "pending"
    /\ sr_calls = 0
    /\ sr_robots_reads = 0

StoreIdle ==
    /\ st_pc = "idle"
    /\ st_rows = <<>>
    /\ st_prev = <<>>
    /\ st_upserts = <<>>

LimitIdle ==
    /\ lm_pc = "idle"
    /\ lm_type = ""
    /\ lm_limit = 0
    /\ lm_offered = 0
    /\ lm_returned = 0

GatherIdle ==
    /\ ga_pc = "idle"
    /\ ga_db = {}
    /\ ga_results = <<>>
    /\ ga_running = {}
    /\ ga_order = <<>>
    /\ ga_all = <<>>
    /\ ga_unique = <<>>

(***************************************************************************)
(* For each component, the variables of all the others and their idle      *)
(* values.                                                                 *)
(***************************************************************************)
dedupRest ==
    <<recencyVars, heuristicVars, summarizeVars, pipelineVars,
      discoverVars, scraperVars, resolveVars, runVars,
      requestVars, storeVars, limitVars, gatherVars>>
DedupRestIdle ==
    /\ RecencyIdle
    /\ HeuristicIdle
    /\ SummarizeIdle
    /\ PipelineIdle
    /\ DiscoverIdle
    /\ ScraperIdle
    /\ ResolveIdle
    /\ RunIdle
    /\ RequestIdle
    /\ StoreIdle
    /\ LimitIdle
    /\ GatherIdle

recencyRest ==
    <<dedupVars, heuristicVars, summarizeVars, pipelineVars,
      discoverVars, scraperVars, resolveVars, runVars,
      requestVars, storeVars, limitVars, gatherVars>>
RecencyRestIdle ==
    /\ DedupIdle
    /\ HeuristicIdle
    /\ SummarizeIdle
    /\ PipelineIdle
    /\ DiscoverIdle
    /\ ScraperIdle
    /\ ResolveIdle
    /\ RunIdle
    /\ RequestIdle
    /\ StoreIdle
    /\ LimitIdle
    /\ GatherIdle

heuristicRest ==
    <<dedupVars, recencyVars, summarizeVars, pipelineVars,
      discoverVars, scraperVars, resolveVars, runVars,
      requestVars, storeVars, limitVars, gatherVars>>
HeuristicRestIdle ==
    /\ DedupIdle
    /\ RecencyIdle
    /\ SummarizeIdle
    /\ PipelineIdle
    /\ DiscoverIdle
    /\ ScraperIdle
    /\ ResolveIdle
    /\ RunIdle
    /\ RequestIdle
    /\ StoreIdle
    /\ LimitIdle
    /\ GatherIdle

summarizeRest ==
    <<dedupVars, recencyVars, heuristicVars, pipelineVars,
      discoverVars, scraperVars, resolveVars, runVars,
      requestVars, storeVars, limitVars, gatherVars>>
SummarizeRestIdle ==
    /\ DedupIdle
    /\ RecencyIdle
    /\ HeuristicIdle
    /\ PipelineIdle
    /\ DiscoverIdle
    /\ ScraperIdle
    /\ ResolveIdle
    /\ RunIdle
    /\ RequestIdle
    /\ StoreIdle
    /\ LimitIdle
    /\ GatherIdle

pipelineRest ==
    <<dedupVars, recencyVars, heuristicVars, summarizeVars,
      discoverVars, scraperVars, resolveVars, runVars,
      requestVars, storeVars, limitVars, gatherVars>>
PipelineRestIdle ==
    /\ DedupIdle
    /\ RecencyIdle
    /\ HeuristicIdle
    /\ SummarizeIdle
    /\ DiscoverIdle
    /\ ScraperIdle
    /\ ResolveIdle
    /\ RunIdle
    /\ RequestIdle
    /\ StoreIdle
    /\ LimitIdle
    /\ GatherIdle

discoverRest ==
    <<dedupVars, recencyVars, heuristicVars, summarizeVars,
      pipelineVars, scraperVars, resolveVars, runVars,
      requestVars, storeVars, limitVars, gatherVars>>
DiscoverRestIdle ==
    /\ DedupIdle
    /\ RecencyIdle
    /\ HeuristicIdle
    /\ SummarizeIdle
    /\ PipelineIdle
    /\ ScraperIdle
    /\ ResolveIdle
    /\ RunIdle
    /\ RequestIdle
    /\ StoreIdle
    /\ LimitIdle
    /\ GatherIdle

scraperRest ==
    <<dedupVars, recencyVars, heuristicVars, summarizeVars,
      pipelineVars, discoverVars, resolveVars, runVars,
      requestVars, storeVars, limitVars, gatherVars>>
ScraperRestIdle ==
    /\ DedupIdle
    /\ RecencyIdle
    /\ HeuristicIdle
    /\ SummarizeIdle
    /\ PipelineIdle
    /\ DiscoverIdle
    /\ ResolveIdle
    /\ RunIdle
    /\ RequestIdle
    /\ StoreIdle
    /\ LimitIdle
    /\ GatherIdle

resolveRest ==
    <<dedupVars, recencyVars, heuristicVars, summarizeVars,
      pipelineVars, discoverVars, scraperVars, runVars,
      requestVars, storeVars, limitVars, gatherVars>>
ResolveRestIdle ==
    /\ DedupIdle
    /\ RecencyIdle
    /\ HeuristicIdle
    /\ SummarizeIdle
    /\ PipelineIdle
    /\ DiscoverIdle
    /\ ScraperIdle
    /\ RunIdle
    /\ RequestIdle
    /\ StoreIdle
    /\ LimitIdle
    /\ GatherIdle

runRest ==
    <<dedupVars, recencyVars, heuristicVars, summarizeVars,
      pipelineVars, discoverVars, scraperVars, resolveVars,
      requestVars, storeVars, limitVars, gatherVars>>
RunRestIdle ==
    /\ DedupIdle
    /\ RecencyIdle
    /\ HeuristicIdle
    /\ SummarizeIdle
    /\ PipelineIdle
    /\ DiscoverIdle
    /\ ScraperIdle
    /\ ResolveIdle
    /\ RequestIdle
    /\ StoreIdle
    /\ LimitIdle
    /\ GatherIdle

requestRest ==
    <<dedupVars, recencyVars, heuristicVars, summarizeVars,
      pipelineVars, discoverVars, scraperVars, resolveVars,
      runVars, storeVars, limitVars, gatherVars>>
RequestRestIdle ==
    /\ DedupIdle
    /\ RecencyIdle
    /\ HeuristicIdle
    /\ SummarizeIdle
    /\ PipelineIdle
    /\ DiscoverIdle
    /\ ScraperIdle
    /\ ResolveIdle
    /\ RunIdle
    /\ StoreIdle
    /\ LimitIdle
    /\ GatherIdle

storeRest ==
    <<dedupVars, recencyVars, heuristicVars, summarizeVars,
      pipelineVars, discoverVars, scraperVars, resolveVars,
      runVars, requestVars, limitVars, gatherVars>>
StoreRestIdle ==
    /\ DedupIdle
    /\ RecencyIdle
    /\ HeuristicIdle
    /\ SummarizeIdle
    /\ PipelineIdle
    /\ DiscoverIdle
    /\ ScraperIdle
    /\ ResolveIdle
    /\ RunIdle
    /\ RequestIdle
    /\ LimitIdle
    /\ GatherIdle

limitRest ==
    <<dedupVars, recencyVars, heuristicVars, summarizeVars,
      pipelineVars, discoverVars, scraperVars, resolveVars,
      runVars, requestVars, storeVars, gatherVars>>
LimitRestIdle ==
    /\ DedupIdle
    /\ RecencyIdle
    /\ HeuristicIdle
    /\ SummarizeIdle
    /\ PipelineIdle
    /\ DiscoverIdle
    /\ ScraperIdle
    /\ ResolveIdle
    /\ RunIdle
    /\ RequestIdle
    /\ StoreIdle
    /\ GatherIdle

gatherRest ==
    <<dedupVars, recencyVars, heuristicVars, summarizeVars,
      pipelineVars, discoverVars, scraperVars, resolveVars,
      runVars, requestVars, storeVars, limitVars>>
GatherRestIdle ==
    /\ DedupIdle
    /\ RecencyIdle
    /\ HeuristicIdle
    /\ SummarizeIdle
    /\ PipelineIdle
    /\ DiscoverIdle
    /\ ScraperIdle
    /\ ResolveIdle
    /\ RunIdle
    /\ RequestIdle
    /\ StoreIdle
    /\ LimitIdle

\* Whether x is an element of the sequence.
InSeq(x, seq) == \E k \in 1..Len(seq) : seq[k] = x

\* The least element of a non-empty set of numbers.
First(S) == CHOOSE k \in S : \A m \in S : k <= m

\* All sequences over S of length at most n.
SeqsUpTo(S, n) == UNION {[1..k -> S] : k \in 0..n}

(***************************************************************************)
(* Recency filter.                                                         *)
(***************************************************************************)
\* filter_recent(self, articles, hours=48), base.py line 103.
DEFAULT_HOURS == 48
\* scrape() calls filter_recent(articles, hours=36), base.py line 140.
SCRAPE_HOURS == 36

Windows == {SCRAPE_HOURS, DEFAULT_HOURS}
Nows == {MaxNow - 1, MaxNow}

\* timedelta(hours=hours), in ticks.
timedelta(hours) == hours * TicksPerHour

\* cutoff_time = now - timedelta(hours=hours), base.py line 115.
cutoff_time(now, hours) == now - timedelta(hours)

\* Wall-clock readings around each boundary, and the clock readings.
WallTimes ==
    {cutoff_time(n, w) + d : n \in Nows, w \in Windows, d \in {-1, 0, 1}}
        \cup Nows

\* article.published_at: None, or a datetime with its wall-clock reading and
\* whether it carries a tzinfo.
None == [none |-> TRUE, wall |-> 0, aware |-> FALSE]
PublishedAt == {None} \cup [none : {FALSE}, wall : WallTimes, aware : BOOLEAN]

\* base.py lines 121-123: pub_date.replace(tzinfo=None) keeps the wall-clock
\* reading and drops the zone.
naive(published_at) ==
    [none |-> FALSE, wall |-> published_at.wall, aware |-> FALSE]

\* base.py lines 119-125: the test that keeps an article.
is_recent_strict(published_at, cutoff) ==
    /\ published_at # None
    /\ naive(published_at).wall > cutoff
is_recent(published_at, cutoff) ==
    /\ published_at # None
    /\ naive(published_at).wall >= cutoff

\* BaseScraper.filter_recent, base.py lines 103-129.
RECURSIVE keep_recent(_, _)
keep_recent(articles, cutoff) ==
    IF articles = <<>> THEN <<>>
    ELSE IF is_recent(Head(articles).published_at, cutoff)
         THEN <<Head(articles)>> \o keep_recent(Tail(articles), cutoff)
         ELSE keep_recent(Tail(articles), cutoff)

filter_recent(articles, hours, now) ==
    keep_recent(articles, cutoff_time(now, hours))

\* fetch_with_retry has returned rf_articles; the clock reads rf_now.
RecencyInit ==
    /\ RecencyRestIdle
    /\ rf_pc = "fetched"
    /\ rf_now \in Nows
    /\ rf_hours = 0
    /\ rf_articles \in SeqsUpTo([published_at : PublishedAt], MaxRecencyBatch)
    /\ rf_filtered = <<>>

\* A call filter_recent(articles) or filter_recent(articles, hours).
FilterRecent ==
    /\ rf_pc = "fetched"
    /\ \E hours \in Windows :
          /\ rf_hours' = hours
          /\ rf_filtered' = filter_recent(rf_articles, hours, rf_now)
    /\ rf_pc' = "filtered"
    /\ UNCHANGED <<rf_now, rf_articles>>
    /\ UNCHANGED recencyRest

\* BaseScraper.scrape, base.py lines 131-141: the 36-hour window.
Scrape ==
    /\ rf_pc = "fetched"
    /\ rf_hours' = SCRAPE_HOURS
    /\ rf_filtered' = filter_recent(rf_articles, SCRAPE_HOURS, rf_now)
    /\ rf_pc' = "scraped"
    /\ UNCHANGED <<rf_now, rf_articles>>
    /\ UNCHANGED recencyRest

RecencyNext == FilterRecent \/ Scrape

SpecRecency == RecencyInit /\ [][RecencyNext]_vars

(***************************************************************************)
(* Needs-translation heuristic.                                            *)
(***************************************************************************)
\* One token per character of the string: "a" is a character of
\* string.ascii_letters; "zh" is a character for which isalnum() holds and
\* that is not in string.ascii_letters (a CJK letter; a digit counts the
\* same way); "!" is a character for which isalnum() fails (punctuation,
\* white space).
Chars == {"a", "zh", "!"}
ascii_letters == {"a"}
isalnum(c) == c \in {"a", "zh"}

\* sum(1 for c in text if c in string.ascii_letters)
RECURSIVE english_chars(_)
english_chars(text) ==
    IF text = <<>> THEN 0
    ELSE (IF Head(text) \in ascii_letters THEN 1 ELSE 0)
             + english_chars(Tail(text))

\* sum(1 for c in text if c.isalnum())
RECURSIVE total_chars(_)
total_chars(text) ==
    IF text = <<>> THEN 0
    ELSE (IF isalnum(Head(text)) THEN 1 ELSE 0) + total_chars(Tail(text))

\* `english_chars / total_chars > 0.3` for total_chars > 0.  The quotient of
\* two small integers is rounded to the nearest double and 0.3 is the double
\* nearest to 3/10, so the comparison holds exactly when 10 * e > 3 * t.
ratio_above_threshold_inclusive(e, t) == 10 * e >= 3 * t
ratio_above_threshold(e, t) == 10 * e > 3 * t

\* NewsAggregator._needs_translation, main.py lines 283-292.
needs_translation_main(text) ==
    IF text = <<>> THEN FALSE
    ELSE IF total_chars(text) = 0 THEN FALSE
    ELSE ratio_above_threshold(english_chars(text), total_chars(text))

\* Translator._needs_translation, translator.py lines 98-105.
needs_translation_translator(text) ==
    IF total_chars(text) = 0 THEN FALSE
    ELSE ratio_above_threshold(english_chars(text), total_chars(text))

HeuristicInit ==
    /\ HeuristicRestIdle
    /\ nt_text \in SeqsUpTo(Chars, MaxTextLen)
    /\ nt_done = {}
    /\ nt_main = FALSE
    /\ nt_translator = FALSE

\* self._needs_translation(title) in run(), main.py lines 102 and 112.
NeedsTranslationMain ==
    /\ "idle" \notin nt_done
    /\ "main" \notin nt_done
    /\ nt_main' = needs_translation_main(nt_text)
    /\ nt_done' = nt_done \cup {"main"}
    /\ UNCHANGED <<nt_text, nt_translator>>
    /\ UNCHANGED heuristicRest

\* self._needs_translation(title) in the Translator, translator.py lines 63, 82.
NeedsTranslationTranslator ==
    /\ "idle" \notin nt_done
    /\ "translator" \notin nt_done
    /\ nt_translator' = needs_translation_translator(nt_text)
    /\ nt_done' = nt_done \cup {"translator"}
    /\ UNCHANGED <<nt_text, nt_main>>
    /\ UNCHANGED heuristicRest

HeuristicNext == NeedsTranslationMain \/ NeedsTranslationTranslator

SpecHeuristic == HeuristicInit /\ [][HeuristicNext]_vars

(***************************************************************************)
(* summarize_and_translate of the translators.                             *)
(***************************************************************************)
\* TranslatorFactory.TRANSLATORS, translator.py lines 345-350; DeepSeek and
\* OpenAI override summarize_and_translate, Google and DeepL inherit it.
NativeProviders == {"deepseek", "openai"}
DefaultProviders == {"google", "deepl"}
Providers == NativeProviders \cup DefaultProviders

\* The text of a completion, one token per lexical unit: "{" and "}" are the
\* braces; "S" is the member "summary": "s" and "T" the member
\* "translated": "t"; "," is a comma; "x" is any other text.
ReplyTokens == {"{", "}", "S", "T", ",", "x"}
ReplyTexts == SeqsUpTo(ReplyTokens, MaxReplyLen)

\* The values of the two members, as texts.
summary_value == <<"s">>
translated_value == <<"t">>

\* _call_api, translator.py lines 117-151 and 213-247: '' when the key is
\* missing or the request, the status check or the JSON access raises, the
\* stripped content of the first choice otherwise.
call_api(reply) == IF reply.fails THEN <<>> ELSE reply.content

\* result.index('{') and result.rindex('}').
index_of(text, tok) ==
    CHOOSE k \in 1..Len(text) :
        text[k] = tok /\ \A m \in 1..(k - 1) : text[m] # tok
rindex_of(text, tok) ==
    CHOOSE k \in 1..Len(text) :
        text[k] = tok /\ \A m \in (k + 1)..Len(text) : text[m] # tok

\* result[start:end] with start and end as lines 187-188 compute them; the
\* slice is empty when the last '}' comes before the first '{'.
json_str(text) ==
    LET start == index_of(text, "{")
        end == rindex_of(text, "}")
    IN IF end < start THEN <<>> ELSE SubSeq(text, start, end)

\* Whether what lies between the braces is a list of members separated by
\* commas: M, or M "," M, ...
RECURSIVE is_member_list(_)
is_member_list(body) ==
    IF body = <<>> THEN FALSE
    ELSE /\ Head(body) \in {"S", "T"}
         /\ \/ Len(body) = 1
            \/ /\ Len(body) >= 3
               /\ body[2] = ","
               /\ is_member_list(SubSeq(body, 3, Len(body)))

\* json.loads(json_str): the text is an object when it is "{" members "}";
\* anything else raises.
json_loads_ok(js) ==
    /\ Len(js) >= 2
    /\ js[1] = "{"
    /\ js[Len(js)] = "}"
    /\ LET body == SubSeq(js, 2, Len(js) - 1)
       IN body = <<>> \/ is_member_list(body)

\* data.get('summary', '') and data.get('translated', '') of the parsed object.
data_get_summary(js) ==
    IF \E k \in 1..Len(js) : js[k] = "S" THEN summary_value ELSE <<>>
data_get_translated(js) ==
    IF \E k \in 1..Len(js) : js[k] = "T" THEN translated_value ELSE <<>>

\* The try block, translator.py lines 184-196 and 269-280: "parsed" when the
\* return inside it is reached, "skipped" when the text lacks a brace,
\* "raised" when json.loads raises.
try_parse(result) ==
    IF (\E k \in 1..Len(result) : result[k] = "{")
           /\ (\E k \in 1..Len(result) : result[k] = "}")
    THEN IF json_loads_ok(json_str(result)) THEN "parsed" ELSE "raised"
    ELSE "skipped"

\* Whether the except clause lets the outcome of the try block through:
\* `except Exception` catches the error of json.loads.
except_too_narrow(outcome) == outcome = "raised"
except_propagates(outcome) == FALSE

\* The return value once the try block was left without returning.
deepseek_fallback(result) ==
    IF result # <<>>
    THEN [raised |-> FALSE, summary |-> <<>>, translated |-> result]
    ELSE [raised |-> FALSE, summary |-> <<>>, translated |-> <<>>]
openai_fallback(result) ==
    [raised |-> FALSE, summary |-> <<>>,
     translated |-> IF result # <<>> THEN result ELSE <<>>]

parsed_result(result) ==
    [raised |-> FALSE,
     summary |-> data_get_summary(json_str(result)),
     translated |-> data_get_translated(json_str(result))]

raised_result == [raised |-> TRUE, summary |-> <<>>, translated |-> <<>>]

\* DeepSeekTranslator.summarize_and_translate, translator.py lines 159-201.
deepseek_summarize_and_translate(reply) ==
    LET result == call_api(reply)
        outcome == try_parse(result)
    IN IF outcome = "parsed" THEN parsed_result(result)
       ELSE IF except_propagates(outcome) THEN raised_result
       ELSE deepseek_fallback(result)

\* OpenAITranslator.summarize_and_translate, translator.py lines 255-282.
openai_summarize_and_translate(reply) ==
    LET result == call_api(reply)
        outcome == try_parse(result)
    IN IF outcome = "parsed" THEN parsed_result(result)
       ELSE IF except_propagates(outcome) THEN raised_result
       ELSE openai_fallback(result)

\* Translator.summarize_and_translate, translator.py lines 32-45: the default
\* of the providers without native summarization; translate() of Google and
\* DeepL returns '' on failure and the provider's text otherwise.
default_summarize_and_translate(reply) ==
    [raised |-> FALSE, summary |-> <<>>, translated |-> call_api(reply)]

summarize_and_translate(provider, reply) ==
    IF provider = "deepseek" THEN deepseek_summarize_and_translate(reply)
    ELSE IF provider = "openai" THEN openai_summarize_and_translate(reply)
    ELSE default_summarize_and_translate(reply)

SummarizeInit ==
    /\ SummarizeRestIdle
    /\ sm_pc = "ready"
    /\ sm_provider \in Providers
    /\ sm_reply \in [fails : BOOLEAN, content : ReplyTexts]
    /\ sm_result = [raised |-> FALSE, summary |-> <<>>, translated |-> <<>>]

DeepSeekSummarize ==
    /\ sm_pc = "ready"
    /\ sm_provider = "deepseek"
    /\ sm_result' = deepseek_summarize_and_translate(sm_reply)
    /\ sm_pc' = "returned"
    /\ UNCHANGED <<sm_provider, sm_reply>>
    /\ UNCHANGED summarizeRest

OpenAISummarize ==
    /\ sm_pc = "ready"
    /\ sm_provider = "openai"
    /\ sm_result' = openai_summarize_and_translate(sm_reply)
    /\ sm_pc' = "returned"
    /\ UNCHANGED <<sm_provider, sm_reply>>
    /\ UNCHANGED summarizeRest

DefaultSummarize ==
    /\ sm_pc = "ready"
    /\ sm_provider \in DefaultProviders
    /\ sm_result' = default_summarize_and_translate(sm_reply)
    /\ sm_pc' = "returned"
    /\ UNCHANGED <<sm_provider, sm_reply>>
    /\ UNCHANGED summarizeRest

SummarizeNext == DeepSeekSummarize \/ OpenAISummarize \/ DefaultSummarize

SpecSummarize == SummarizeInit /\ [][SummarizeNext]_vars

(***************************************************************************)
(* Translation stage of NewsAggregator.run (step 5).                       *)
(***************************************************************************)
\* main.py line 94: `len(content) > 30`.
SUMMARIZE_MIN_LENGTH == 30

\* A derived field the stage has not set (the key is absent from the dict).
Unset == <<"unset">>

\* article['source_type'] is the effective type; every type other than
\* 'twitter' takes the second loop, 'rss' stands for them.
SourceTypes == {"twitter", "rss"}
ContentLengths == {30, 31}
ArticleTitles == {<<>>, <<"a", "a">>, <<"zh", "zh">>}

ScrapedArticle ==
    [source_type : SourceTypes, content_len : ContentLengths,
     title : ArticleTitles, translate : BOOLEAN,
     summary : {Unset}, translated_content : {Unset},
     translated_title : {Unset}]

\* What the provider does for one request of the stage.
FailedReply == [fails |-> TRUE, content |-> <<>>]
TranslateReplies == {FailedReply, [fails |-> FALSE, content |-> <<"x">>]}
SummarizeReplies ==
    {FailedReply,
     [fails |-> FALSE, content |-> <<"x">>],
     [fails |-> FALSE, content |-> <<"{", "S", "}">>],
     [fails |-> FALSE, content |-> <<"{", "S", ",", "T", "}">>]}

\* Config.TRANSLATOR_TYPE: the four registered names and one that is not.
TranslatorTypes == Providers \cup {"bing"}
\* The providers whose constructor reads an API key from Config.
KeyProviders == {"deepseek", "openai", "deepl"}

\* TranslatorFactory.create, translator.py lines 352-380: None for a name
\* that is not a key of TRANSLATORS; no constructor raises.
create(translator_type) ==
    IF translator_type \in Providers THEN translator_type ELSE "None"

\* `if not self.api_key: return ''` (translator.py lines 119-120, 215-216,
\* 318-320): without key no request is made and the outcome is that of a
\* failed one.
provider_reply_ignore_key(provider, api_key, reply) == reply
provider_reply(provider, api_key, reply) ==
    IF provider \in KeyProviders /\ ~api_key THEN FailedReply ELSE reply

\* translate(text) of each provider: '' on a missing key or any error, the
\* provider's text otherwise (translator.py lines 153-157, 249-253, 291-338).
translate_returns_error_text(provider, reply) ==
    IF reply.fails THEN <<"x">> ELSE reply.content
translate(provider, reply) == call_api(reply)

NoCalls ==
    [summarize |-> 0, translate |-> 0, title_reply |-> Unset,
     title_failed |-> FALSE, content_failed |-> FALSE]

\* main.py line 94: `if content and len(content) > 30`.
content_long_enough_inclusive(content_len) ==
    content_len > 0 /\ content_len >= SUMMARIZE_MIN_LENGTH
content_long_enough(content_len) ==
    content_len > 0 /\ content_len > SUMMARIZE_MIN_LENGTH

\* main.py lines 101-105 and 111-115: the title branch of both loops.
translate_title(article, calls, provider, treply) ==
    IF article.title # <<>> /\ needs_translation_main(article.title)
    THEN LET translated_title == translate(provider, treply)
         IN [article |->
                IF translated_title # <<>>
                THEN [article EXCEPT !.translated_title = translated_title]
                ELSE article,
             calls |-> [calls EXCEPT !.translate = @ + 1,
                                     !.title_reply = translated_title,
                                     !.title_failed = treply.fails]]
    ELSE [article |-> article, calls |-> calls]

\* main.py lines 93-99: the content branch of the Twitter loop.
summarize_content(article, calls, provider, sreply) ==
    IF content_long_enough(article.content_len)
    THEN LET result == summarize_and_translate(provider, sreply)
             a1 == IF result.summary # <<>>
                   THEN [article EXCEPT !.summary = result.summary]
                   ELSE article
             a2 == IF result.translated # <<>>
                   THEN [a1 EXCEPT !.translated_content = result.translated]
                   ELSE a1
         IN [article |-> a2,
             calls |-> [calls EXCEPT !.summarize = @ + 1,
                                     !.content_failed = sreply.fails]]
    ELSE [article |-> article, calls |-> calls]

\* One iteration of the loop at main.py lines 92-105.
process_twitter_article(article, calls, provider, sreply, treply) ==
    LET c == summarize_content(article, calls, provider, sreply)
    IN translate_title(c.article, c.calls, provider, treply)

\* main.py line 86: the test that puts an article in twitter_articles.
in_twitter_articles_any_type(article) == TRUE
in_twitter_articles(article) == article.source_type = "twitter"

\* The articles a loop still has to visit: those of its list at or after tp_i.
TwitterPending ==
    {k \in tp_i..Len(tp_articles) : in_twitter_articles(tp_articles[k])}
OthersPending ==
    {k \in tp_i..Len(tp_articles) : tp_articles[k].source_type # "twitter"}

\* The state when run() reaches step 5; self.translator was created in
\* __init__ (main.py line 28).
PipelineInit ==
    /\ PipelineRestIdle
    /\ tp_pc = "deduped"
    /\ tp_type \in TranslatorTypes
    /\ tp_api_key \in (IF tp_type \in KeyProviders THEN BOOLEAN ELSE {FALSE})
    /\ tp_translator = create(tp_type)
    /\ tp_articles \in SeqsUpTo(ScrapedArticle, MaxArticles)
    /\ tp_i = 1
    /\ tp_calls = [k \in 1..Len(tp_articles) |-> NoCalls]

\* main.py lines 92-105, one article of twitter_articles.
ProcessTwitterArticle ==
    /\ tp_pc = "deduped"
    /\ tp_translator # "None"
    /\ TwitterPending # {}
    /\ LET k == First(TwitterPending) IN
       \E sreply \in SummarizeReplies, treply \in TranslateReplies :
          LET r == process_twitter_article(
                       tp_articles[k], tp_calls[k], tp_translator,
                       provider_reply(tp_translator, tp_api_key, sreply),
                       provider_reply(tp_translator, tp_api_key, treply))
          IN /\ tp_articles' = [tp_articles EXCEPT ![k] = r.article]
             /\ tp_calls' = [tp_calls EXCEPT ![k] = r.calls]
             /\ tp_i' = k + 1
    /\ UNCHANGED <<tp_pc, tp_type, tp_api_key, tp_translator>>
    /\ UNCHANGED pipelineRest

\* main.py lines 90 and 107-108: the Twitter loop is over, or was skipped.
BeginOthers ==
    /\ tp_pc = "deduped"
    /\ tp_translator = "None" \/ TwitterPending = {}
    /\ tp_pc' = "others"
    /\ tp_i' = 1
    /\ UNCHANGED <<tp_type, tp_api_key, tp_translator, tp_articles, tp_calls>>
    /\ UNCHANGED pipelineRest

\* main.py lines 110-115, one article of other_articles.
ProcessOtherArticle ==
    /\ tp_pc = "others"
    /\ tp_translator # "None"
    /\ OthersPending # {}
    /\ LET k == First(OthersPending) IN
       \E treply \in TranslateReplies :
          LET r == translate_title(
                       tp_articles[k], tp_calls[k], tp_translator,
                       provider_reply(tp_translator, tp_api_key, treply))
          IN /\ tp_articles' = [tp_articles EXCEPT ![k] = r.article]
             /\ tp_calls' = [tp_calls EXCEPT ![k] = r.calls]
             /\ tp_i' = k + 1
    /\ UNCHANGED <<tp_pc, tp_type, tp_api_key, tp_translator>>
    /\ UNCHANGED pipelineRest

\* main.py line 117: "Translation completed".
FinishTranslation ==
    /\ tp_pc = "others"
    /\ tp_translator = "None" \/ OthersPending = {}
    /\ tp_pc' = "translated"
    /\ UNCHANGED <<tp_type, tp_api_key, tp_translator, tp_articles, tp_i,
                   tp_calls>>
    /\ UNCHANGED pipelineRest

PipelineNext ==
    \/ ProcessTwitterArticle
    \/ BeginOthers
    \/ ProcessOtherArticle
    \/ FinishTranslation

SpecPipeline == PipelineInit /\ [][PipelineNext]_vars

(***************************************************************************)
(* Feed auto-discovery.                                                    *)
(***************************************************************************)
\* A URL is its origin (scheme://netloc) and the rest; an href that is an
\* absolute path has the empty origin.
SiteOrigin == "https://ex.com"
PageUrl == [origin |-> SiteOrigin, path |-> "/blog"]

\* RSSDiscoverer.COMMON_RSS_PATHS, rss_discoverer.py lines 15-31.
COMMON_RSS_PATHS ==
    <<"/feed", "/rss", "/rss.xml", "/atom.xml", "/feed.xml", "/index.rss",
      "/index.xml", "/?feed=rss", "/?feed=rss2", "/?feed=atom", "/blog/feed",
      "/blog/rss", "/news/feed", "/rss-feed", "/posts.rss">>

\* link_types, rss_discoverer.py lines 85-91.
link_types_atom_first ==
    <<"application/atom+xml", "application/rss+xml", "application/rdf+xml",
      "text/xml", "application/xml">>
link_types ==
    <<"application/rss+xml", "application/atom+xml", "application/rdf+xml",
      "text/xml", "application/xml">>

\* The <link rel="alternate"> tags a page may carry: two of the feed types
\* and one type that is not in link_types; an empty, a site-specific and a
\* well-known href.
LinkTypeChoices == {"application/rss+xml", "application/atom+xml", "text/html"}
HrefChoices == {"", "/custom.xml", "/feed"}
HeadLink == [type : LinkTypeChoices, href : HrefChoices]

\* What a GET of a feed candidate can meet: 200 with an XML content type,
\* 200 with another content type and a feed element in the first 1000
\* characters, 200 with neither, another status, an exception.
Responses == {"feed_type", "feed_body", "html", "404", "error"}

\* The candidate URLs that may answer with something other than 404.
LivePaths == {"/feed", "/rss", "/rss.xml", "/posts.rss", "/custom.xml"}
LiveUrls == [origin : {SiteOrigin}, path : LivePaths]
Webs ==
    {w \in [LiveUrls -> Responses] :
        Cardinality({u \in LiveUrls : w[u] # "404"}) <= MaxLive}

response(web, url) == IF url \in DOMAIN web THEN web[url] ELSE "404"

\* RSSDiscoverer._validate_feed, rss_discoverer.py lines 132-159.
validate_feed_error_passes(web, feed_url) ==
    response(web, feed_url) \notin {"404", "html"}
validate_feed(web, feed_url) ==
    LET r == response(web, feed_url)
    IN IF r = "error" THEN FALSE
       ELSE IF r = "404" THEN FALSE
       ELSE IF r = "html" THEN FALSE
       ELSE TRUE

\* urljoin(url, href) for an href that is an absolute path.
urljoin(url, href) == [origin |-> url.origin, path |-> href]

\* urlparse(url): f"{scheme}://{netloc}", lines 120-121.
base_url(url) == [origin |-> url.origin, path |-> ""]

\* The hrefs of soup.find_all('link', rel='alternate', type=link_type), in
\* document order, without the empty ones (lines 94-97).
RECURSIVE links_of_type(_, _)
links_of_type(links, link_type) ==
    IF links = <<>> THEN <<>>
    ELSE IF Head(links).type = link_type /\ Head(links).href # ""
         THEN <<Head(links).href>> \o links_of_type(Tail(links), link_type)
         ELSE links_of_type(Tail(links), link_type)

\* The feed URLs the two nested loops of lines 93-102 validate, in the order
\* in which they validate them.
RECURSIVE html_candidates_from(_, _, _)
html_candidates_from(links, url, t) ==
    IF t > Len(link_types) THEN <<>>
    ELSE LET hrefs == links_of_type(links, link_types[t])
         IN [k \in 1..Len(hrefs) |-> urljoin(url, hrefs[k])]
                \o html_candidates_from(links, url, t + 1)
html_candidates(links, url) == html_candidates_from(links, url, 1)

\* The feed URLs the loop of lines 123-128 validates, in order.
common_candidates(url) ==
    [k \in 1..Len(COMMON_RSS_PATHS) |->
        urljoin(base_url(url), COMMON_RSS_PATHS[k])]

\* Validate the candidates in order and return at the first valid one: the
\* feed found (NoUrl for None) and the requests made.
RECURSIVE first_valid(_, _)
first_valid(web, candidates) ==
    IF candidates = <<>> THEN [feed |-> NoUrl, probes |-> <<>>]
    ELSE IF validate_feed(web, Head(candidates))
         THEN [feed |-> Head(candidates), probes |-> <<Head(candidates)>>]
         ELSE LET rest == first_valid(web, Tail(candidates))
              IN [feed |-> rest.feed,
                  probes |-> <<Head(candidates)>> \o rest.probes]

\* RSSDiscoverer._discover_from_html, lines 63-108: a failed GET of the page
\* is caught and gives None.
discover_from_html(page_ok, links, web, url) ==
    IF ~page_ok THEN [feed |-> NoUrl, probes |-> <<url>>]
    ELSE LET r == first_valid(web, html_candidates(links, url))
         IN [feed |-> r.feed, probes |-> <<url>> \o r.probes]

\* RSSDiscoverer._discover_from_common_paths, lines 110-130.
discover_from_common_paths(web, url) ==
    first_valid(web, common_candidates(url))

\* RSSDiscoverer.discover, lines 36-61.
discover_html_only(page_ok, links, web, url) ==
    discover_from_html(page_ok, links, web, url)
discover(page_ok, links, web, url) ==
    LET h == discover_from_html(page_ok, links, web, url)
    IN IF h.feed # NoUrl THEN h
       ELSE LET c == discover_from_common_paths(web, url)
            IN [feed |-> c.feed, probes |-> h.probes \o c.probes]

\* The loop of discover_all, lines 182-185: every well-known path is
\* validated, and appended when it validates and is not in feeds yet.
RECURSIVE append_valid_paths(_, _, _)
append_valid_paths(web, candidates, feeds) ==
    IF candidates = <<>> THEN feeds
    ELSE append_valid_paths(
             web, Tail(candidates),
             IF validate_feed(web, Head(candidates))
                /\ ~InSeq(Head(candidates), feeds)
             THEN Append(feeds, Head(candidates))
             ELSE feeds)

\* RSSDiscoverer.discover_all, lines 161-187: the list returned and the
\* requests made.
discover_all(page_ok, links, web, url) ==
    LET h == discover_from_html(page_ok, links, web, url)
        feeds == IF h.feed # NoUrl THEN <<h.feed>> ELSE <<>>
    IN [feeds |-> append_valid_paths(web, common_candidates(url), feeds),
        probes |-> h.probes \o common_candidates(url)]

DiscoverInit ==
    /\ DiscoverRestIdle
    /\ dv_pc = "ready"
    /\ dv_page_ok \in BOOLEAN
    /\ dv_links \in SeqsUpTo(HeadLink, MaxLinks)
    /\ dv_web \in Webs
    /\ dv_feed = NoUrl
    /\ dv_probes = <<>>
    /\ dv_feeds = <<>>

\* discover_rss_feed(url), rss_discoverer.py lines 190-201.
Discover ==
    /\ dv_pc = "ready"
    /\ LET r == discover(dv_page_ok, dv_links, dv_web, PageUrl)
       IN /\ dv_feed' = r.feed
          /\ dv_probes' = r.probes
    /\ dv_pc' = "discovered"
    /\ UNCHANGED <<dv_page_ok, dv_links, dv_web, dv_feeds>>
    /\ UNCHANGED discoverRest

DiscoverNext == Discover

SpecDiscover == DiscoverInit /\ [][DiscoverNext]_vars

\* RSSDiscoverer().discover_all(url), rss_discoverer.py lines 161-187.
DiscoverAll ==
    /\ dv_pc = "ready"
    /\ LET r == discover_all(dv_page_ok, dv_links, dv_web, PageUrl)
       IN /\ dv_feeds' = r.feeds
          /\ dv_probes' = r.probes
    /\ dv_pc' = "listed"
    /\ UNCHANGED <<dv_page_ok, dv_links, dv_web, dv_feed>>
    /\ UNCHANGED discoverRest

DiscoverAllNext == DiscoverAll

\* A caller that asks for every feed of the page.
SpecDiscoverAll == DiscoverInit /\ [][DiscoverAllNext]_vars

(***************************************************************************)
(* Feed scraper and page scraper.                                          *)
(***************************************************************************)
\* BaseScraper.__init__, base.py line 59.
max_retries == 3
\* RSSScraper.__init__, rss.py line 15.
RSS_DEFAULT_MAX_ARTICLES == 50
\* BlogScraper.__init__, blog.py line 17.
BLOG_DEFAULT_MAX_ARTICLES == 20

\* source.get('limit', 0) of the source being scraped.
Limits == {0, 1}

\* main.py line 252 and the two __init__: config is {'max_articles': limit}
\* when limit > 0 and {} otherwise, and an empty config gives the default.
max_articles(limit, default) == IF limit > 0 THEN limit ELSE default

\* articles[:n]
Take(seq, n) == SubSeq(seq, 1, IF n < Len(seq) THEN n ELSE Len(seq))

\* The clock reading of the run, and published times on both sides of the
\* 36-hour boundary.
ScrapeNow == MaxNow
OldTime ==
    [none |-> FALSE, wall |-> cutoff_time(ScrapeNow, SCRAPE_HOURS) - 1,
     aware |-> FALSE]
NowTime == [none |-> FALSE, wall |-> ScrapeNow, aware |-> FALSE]
published_time(published) == IF published = "old" THEN OldTime ELSE NowTime

\* An entry of feed.entries: its title ("absent" when the entry has none),
\* its link (NoUrl when the entry has none, or an empty one), its published
\* time ("absent" when it has none) and whether extracting its content raises.
EntryLinks ==
    {NoUrl, [origin |-> SiteOrigin, path |-> "/a1"],
            [origin |-> SiteOrigin, path |-> "/a2"]}
FeedEntry ==
    [title : {"absent", "t1"}, link : EntryLinks,
     published : {"absent", "old", "fresh"}, malformed : BOOLEAN]

\* rss.py lines 42-44: `if not url: continue`.
entry_is_kept_without_link(entry) == ~entry.malformed
entry_is_kept(entry) == entry.link # NoUrl /\ ~entry.malformed

\* rss.py lines 38-62: the Article built from an entry.
entry_article(entry) ==
    [title |-> IF entry.title = "absent" THEN "No Title" ELSE entry.title,
     url |-> entry.link,
     published_at |-> published_time(entry.published)]

\* RSSScraper.fetch, rss.py lines 17-69.
RECURSIVE parse_entries(_)
parse_entries(entries) ==
    IF entries = <<>> THEN <<>>
    ELSE IF entry_is_kept(Head(entries))
         THEN <<entry_article(Head(entries))>> \o parse_entries(Tail(entries))
         ELSE parse_entries(Tail(entries))

rss_fetch(entries, limit) ==
    parse_entries(Take(entries, max_articles(limit, RSS_DEFAULT_MAX_ARTICLES)))

\* An element soup.select returned: the text of its title element ("" when
\* it has none), the href of its first <a> and its time element.
HrefAbsent == [present |-> FALSE, origin |-> "", path |-> ""]
Hrefs ==
    {HrefAbsent,
     [present |-> TRUE, origin |-> "", path |-> ""],
     [present |-> TRUE, origin |-> "", path |-> "/p1"],
     [present |-> TRUE, origin |-> "", path |-> "p2.html"],
     [present |-> TRUE, origin |-> "https://o.com", path |-> "/p"]}
PageElement == [title : {"", "t1"}, href : Hrefs, published : {"absent", "old"}]

\* article_selectors, blog.py lines 38-44.
article_selectors ==
    <<"article", ".post", ".entry", ".blog-post",
      "[itemtype=\"http://schema.org/BlogPosting\"]">>

\* url.startswith('/')
starts_with_slash(href) == href.origin = "" /\ href.path \in {"/p1"}

\* blog.py lines 85-95: the URL of the article of an element.
element_url(self_url, href) ==
    IF href.present /\ (href.origin # "" \/ href.path # "")
    THEN IF starts_with_slash(href)
         THEN [origin |-> self_url.origin, path |-> href.path]
         ELSE [origin |-> href.origin, path |-> href.path]
    ELSE self_url

\* BlogScraper._parse_article_element, blog.py lines 71-135, applied to the
\* elements of one selector; an element without title gives None.
RECURSIVE parse_elements(_, _)
parse_elements(self_url, elements) ==
    IF elements = <<>> THEN <<>>
    ELSE LET e == Head(elements)
             rest == parse_elements(self_url, Tail(elements))
         IN IF e.title = "" THEN rest
            ELSE <<[title |-> e.title,
                    url |-> element_url(self_url, e.href),
                    published_at |-> published_time(e.published)]>> \o rest

\* blog.py lines 46-62: the first selector, from position s on, whose
\* elements give at least one article.
RECURSIVE first_selector_with_articles(_, _, _, _)
first_selector_with_articles(self_url, matches, n, s) ==
    IF s > Len(matches) THEN <<>>
    ELSE LET articles == parse_elements(self_url, Take(matches[s], n))
         IN IF articles # <<>> THEN articles
            ELSE first_selector_with_articles(self_url, matches, n, s + 1)

\* BlogScraper.fetch, blog.py lines 19-69: the GET of an empty URL raises,
\* and every exception is caught and gives [].
blog_fetch(self_url, page_ok, matches, limit) ==
    IF self_url = NoUrl \/ ~page_ok THEN <<>>
    ELSE first_selector_with_articles(
             self_url, matches,
             max_articles(limit, BLOG_DEFAULT_MAX_ARTICLES), 1)

\* base.py line 97: after a failed iteration `attempt` (from 0) the loop
\* sleeps retry_delay unless that iteration was the last.
retry_sleep_always(attempt) == TRUE
retry_sleep_due(attempt) == attempt < max_retries - 1

\* The loop of fetch_with_retry from iteration `attempt` on, base.py lines
\* 92-101: what it does, in order ("fetch" for a self.fetch() invocation,
\* "sleep" for time.sleep(self.retry_delay)).  Invocation attempt + 1 raises
\* when attempt < raises; a fetch that returns ends the loop (line 94), and
\* so does the failure of the last iteration (line 101).
RECURSIVE retry_loop(_, _, _, _)
retry_loop(attempt, raises, articles, log) ==
    IF attempt >= max_retries THEN [result |-> <<>>, log |-> log]
    ELSE IF attempt >= raises
         THEN [result |-> articles, log |-> log \o <<"fetch">>]
    ELSE IF retry_sleep_due(attempt)
         THEN retry_loop(attempt + 1, raises, articles,
                         log \o <<"fetch", "sleep">>)
         ELSE [result |-> <<>>, log |-> log \o <<"fetch">>]

\* BaseScraper.fetch_with_retry, base.py lines 85-101: `articles` is what
\* fetch() returns when it does not raise; the first `raises` invocations
\* raise.
fetch_with_retry(raises, articles) ==
    retry_loop(0, raises, articles, <<>>).result

\* BaseScraper.scrape, base.py lines 131-141.
scrape(raises, articles, now) ==
    filter_recent(fetch_with_retry(raises, articles), SCRAPE_HOURS, now)

RssInputs ==
    /\ sc_kind = "rss"
    /\ sc_url = [origin |-> SiteOrigin, path |-> "/feed"]
    /\ sc_raises \in 0..max_retries
    /\ sc_entries \in SeqsUpTo(FeedEntry, MaxEntries)
    /\ sc_page_ok = FALSE
    /\ sc_matches = <<>>

\* The page matches the first two selectors at most; feedparser is not used,
\* and fetch() of the page scraper catches what it raises itself.
BlogInputs ==
    /\ sc_kind = "blog"
    /\ sc_url \in {PageUrl, NoUrl}
    /\ sc_raises = 0
    /\ sc_entries = <<>>
    /\ sc_page_ok \in BOOLEAN
    /\ \E m1, m2 \in SeqsUpTo(PageElement, MaxElements) :
          sc_matches = <<m1, m2, <<>>, <<>>, <<>>>>

ScraperInit ==
    /\ ScraperRestIdle
    /\ sc_pc = "ready"
    /\ sc_limit \in Limits
    /\ RssInputs \/ BlogInputs
    /\ sc_out = <<>>
    /\ sc_log = <<>>

\* scraper.scrape() of an RSSScraper, main.py line 267.
RssScrape ==
    /\ sc_pc = "ready"
    /\ sc_kind = "rss"
    /\ sc_out' = scrape(sc_raises, rss_fetch(sc_entries, sc_limit), ScrapeNow)
    /\ sc_log' = retry_loop(0, sc_raises, <<>>, <<>>).log
    /\ sc_pc' = "scraped"
    /\ UNCHANGED <<sc_kind, sc_url, sc_limit, sc_raises, sc_entries,
                   sc_page_ok, sc_matches>>
    /\ UNCHANGED scraperRest

\* scraper.scrape() of a BlogScraper, main.py line 267.
BlogScrape ==
    /\ sc_pc = "ready"
    /\ sc_kind = "blog"
    /\ sc_out' = scrape(sc_raises,
                        blog_fetch(sc_url, sc_page_ok, sc_matches, sc_limit),
                        ScrapeNow)
    /\ sc_log' = retry_loop(0, sc_raises, <<>>, <<>>).log
    /\ sc_pc' = "scraped"
    /\ UNCHANGED <<sc_kind, sc_url, sc_limit, sc_raises, sc_entries,
                   sc_page_ok, sc_matches>>
    /\ UNCHANGED scraperRest

ScraperNext == RssScrape \/ BlogScrape

SpecScraper == ScraperInit /\ [][ScraperNext]_vars

(***************************************************************************)
(* Source resolution: the type NotionIntegration.get_active_sources gives  *)
(* a source, and the scraper NewsAggregator.scrape_source constructs.      *)
(***************************************************************************)
BlogOrigin == "https://news.org"
YouTubeOrigin == "https://www.youtube.com"
XOrigin == "https://x.com"
TwitterOrigin == "https://twitter.com"

\* The Feed URL and URL properties a source may carry (NoUrl when unset).
FeedUrlChoices ==
    {NoUrl,
     [origin |-> BlogOrigin, path |-> "/feed"],
     [origin |-> BlogOrigin, path |-> "/atom.xml"],
     [origin |-> YouTubeOrigin, path |-> "/feeds/videos.xml"]}
UrlChoices ==
    {NoUrl,
     [origin |-> BlogOrigin, path |-> "/blog"],
     [origin |-> SiteOrigin, path |-> "/blog"],
     [origin |-> XOrigin, path |-> "/user"],
     [origin |-> YouTubeOrigin, path |-> "/@channel"]}

\* 'youtube.com' in u
contains_youtube_com(u) == u.origin = YouTubeOrigin
\* 'x.com' in u: "https://ex.com" contains it as well.
contains_x_com(u) == u.origin \in {XOrigin, SiteOrigin}
\* 'twitter.com' in u
contains_twitter_com(u) == u.origin = TwitterOrigin
\* 'feed' in u.lower() or 'rss' in u.lower()
contains_feed_or_rss(u) == u.path \in {"/feed", "/feeds/videos.xml"}

\* get_active_sources, notion.py lines 118-129.
source_type(feed_url, url) ==
    IF contains_youtube_com(feed_url) \/ contains_youtube_com(url)
    THEN "youtube"
    ELSE IF feed_url # NoUrl /\ contains_feed_or_rss(feed_url) THEN "rss"
    ELSE IF url # NoUrl /\ contains_youtube_com(url) THEN "youtube"
    ELSE IF url # NoUrl /\ (contains_x_com(url) \/ contains_twitter_com(url))
         THEN "twitter"
    ELSE "blog"

\* What the feed candidates of the page at BlogOrigin may answer.
ResolveLiveUrls == [origin : {BlogOrigin}, path : {"/feed", "/custom.xml"}]
ResolveWebs ==
    {w \in [ResolveLiveUrls -> Responses] :
        Cardinality({u \in ResolveLiveUrls : w[u] # "404"}) <= MaxResolveLive}

ScraperTypes == {"rss", "twitter", "youtube", "blog"}

\* main.py line 238: `if not source.get('feed_url') and source_type not in
\* ['youtube', 'twitter']`.
needs_discovery_any_type(type, feed_url) == feed_url = NoUrl
needs_discovery(type, feed_url) ==
    feed_url = NoUrl /\ type \notin {"youtube", "twitter"}

\* scrape_source, main.py lines 221-264: url, actual_type, actual_url, the
\* scraper constructed and the requests discovery makes.
resolve(type, feed_url, url, page_ok, links, web) ==
    LET u == IF feed_url # NoUrl THEN feed_url ELSE url
    IN IF u = NoUrl
       THEN [actual_type |-> "", actual_url |-> NoUrl, scraper |-> "none",
             probes |-> <<>>]
       ELSE IF needs_discovery(type, feed_url)
       THEN LET d == discover(page_ok, links, web, u)
            IN IF d.feed # NoUrl
               THEN [actual_type |-> "rss", actual_url |-> d.feed,
                     scraper |-> "rss", probes |-> d.probes]
               ELSE [actual_type |-> "blog", actual_url |-> u,
                     scraper |-> "blog", probes |-> d.probes]
       ELSE [actual_type |-> type, actual_url |-> u,
             scraper |-> IF type \in ScraperTypes THEN type ELSE "none",
             probes |-> <<>>]

ResolveInit ==
    /\ ResolveRestIdle
    /\ rs_pc = "props"
    /\ rs_feed_url \in FeedUrlChoices
    /\ rs_url \in UrlChoices
    /\ rs_page_ok \in BOOLEAN
    /\ rs_links \in SeqsUpTo(HeadLink, MaxResolveLinks)
    /\ rs_web \in ResolveWebs
    /\ rs_type = ""
    /\ rs_actual_type = ""
    /\ rs_actual_url = NoUrl
    /\ rs_scraper = "none"
    /\ rs_probes = <<>>

\* self.notion.get_active_sources(), main.py line 40.
GetActiveSources ==
    /\ rs_pc = "props"
    /\ rs_type' = source_type(rs_feed_url, rs_url)
    /\ rs_pc' = "listed"
    /\ UNCHANGED <<rs_feed_url, rs_url, rs_page_ok, rs_links, rs_web,
                   rs_actual_type, rs_actual_url, rs_scraper, rs_probes>>
    /\ UNCHANGED resolveRest

\* self.scrape_source(source), main.py line 53, up to the construction of
\* the scraper.
ScrapeSource ==
    /\ rs_pc = "listed"
    /\ LET r == resolve(rs_type, rs_feed_url, rs_url, rs_page_ok, rs_links,
                        rs_web)
       IN /\ rs_actual_type' = r.actual_type
          /\ rs_actual_url' = r.actual_url
          /\ rs_scraper' = r.scraper
          /\ rs_probes' = r.probes
    /\ rs_pc' = "resolved"
    /\ UNCHANGED <<rs_feed_url, rs_url, rs_page_ok, rs_links, rs_web, rs_type>>
    /\ UNCHANGED resolveRest

ResolveNext == GetActiveSources \/ ScrapeSource

SpecResolve == ResolveInit /\ [][ResolveNext]_vars

(***************************************************************************)
(* Deduplication engine.                                                   *)
(***************************************************************************)
\* article.get('url', '') and article.get('title', '') range over these;
\* "" is the empty string, which both passes test for explicitly.
Urls == {"", "u1", "u2", "u3"}
Titles == {"", "t1", "t2", "t3"}
Candidate == [url : Urls, title : Titles]

\* Rows the store may already hold when the run starts.
DbRows == {[url |-> "u1", title |-> "t1"], [url |-> "u3", title |-> "t2"]}

\* md5(title.encode()).hexdigest(): a digest, distinct from the title itself;
\* the empty title has a digest too.  No two titles of the domain collide.
md5(title) ==
    CASE title = ""   -> "d41d8cd9"
      [] title = "t1" -> "83f1535f"
      [] title = "t2" -> "4e7c0ba4"
      [] title = "t3" -> "a3e2b84d"

\* dedup.py line 32: `if url and url not in existing_urls`
url_is_new_ignore_seen(url, seen) == url # ""
url_is_new(url, seen) == url # "" /\ url \notin seen

\* dedup.py line 58: `if title and title_hash not in existing_titles`
title_is_new_ignore_seen(title, seen) == title # ""
title_is_new(title, seen) == title # "" /\ md5(title) \notin seen

\* Deduplicator.deduplicate_by_url: the list kept and the set as mutated.
RECURSIVE deduplicate_by_url(_, _)
deduplicate_by_url(articles, seen) ==
    IF articles = <<>> THEN [out |-> <<>>, seen |-> seen]
    ELSE LET article == Head(articles)
             url == article.url
         IN IF url_is_new(url, seen)
            THEN LET rest == deduplicate_by_url(Tail(articles), seen \cup {url})
                 IN [out |-> <<article>> \o rest.out, seen |-> rest.seen]
            ELSE deduplicate_by_url(Tail(articles), seen)

\* Deduplicator.deduplicate_by_title: the list kept and the set as mutated.
RECURSIVE deduplicate_by_title(_, _)
deduplicate_by_title(articles, seen) ==
    IF articles = <<>> THEN [out |-> <<>>, seen |-> seen]
    ELSE LET article == Head(articles)
             title == article.title
         IN IF title_is_new(title, seen)
            THEN LET rest == deduplicate_by_title(Tail(articles),
                                                  seen \cup {md5(title)})
                 IN [out |-> <<article>> \o rest.out, seen |-> rest.seen]
            ELSE deduplicate_by_title(Tail(articles), seen)

\* As deduplicate, adding to the URL set the URLs of the returned articles
\* only.
deduplicate_marks_returned_only(articles, urls, titles, method) ==
    LET u == deduplicate_by_url(articles, urls)
        t == deduplicate_by_title(u.out, titles)
    IN [out |-> t.out, mid |-> u.out,
        urls |-> urls \cup {t.out[k].url : k \in 1..Len(t.out)},
        titles |-> t.seen]

\* As deduplicate, working on copies of the two sets: the caller's sets are
\* left as they were.
deduplicate_on_copies(articles, urls, titles, method) ==
    LET u == deduplicate_by_url(articles, urls)
        t == deduplicate_by_title(u.out, titles)
    IN [out |-> t.out, mid |-> u.out, urls |-> urls, titles |-> titles]

\* Deduplicator.deduplicate: the returned list, the local list after the URL
\* pass, and both sets as the call leaves them.
deduplicate(articles, urls, titles, method) ==
    IF method = "url"
    THEN LET u == deduplicate_by_url(articles, urls)
         IN [out |-> u.out, mid |-> u.out, urls |-> u.seen, titles |-> titles]
    ELSE IF method = "title"
    THEN LET t == deduplicate_by_title(articles, titles)
         IN [out |-> t.out, mid |-> articles, urls |-> urls, titles |-> t.seen]
    ELSE LET u == deduplicate_by_url(articles, urls)
             t == deduplicate_by_title(u.out, titles)
         IN [out |-> t.out, mid |-> u.out, urls |-> u.seen, titles |-> t.seen]

\* main.py lines 62-72: the sets seeded from the persisted rows.
seeded_urls(rows) == {r.url : r \in {x \in rows : x.url # ""}}
seeded_titles(rows) == {md5(r.title) : r \in {x \in rows : x.title # ""}}

\* The state when run() reaches step 4: the scraped candidates are in
\* all_articles and the store holds db_articles.
DedupInit ==
    /\ DedupRestIdle
    /\ dedup_pc = "scraped"
    /\ db_articles \in SUBSET DbRows
    /\ all_articles \in SeqsUpTo(Candidate, MaxBatch)
    /\ existing_urls = {}
    /\ existing_titles = {}
    /\ pre_urls = {}
    /\ pre_titles = {}
    /\ url_pass = <<>>
    /\ unique_articles = <<>>
    /\ dedup_calls = 0

\* main.py lines 62-72.
SeedFromDb ==
    /\ dedup_pc = "scraped"
    /\ existing_urls' = seeded_urls(db_articles)
    /\ existing_titles' = seeded_titles(db_articles)
    /\ pre_urls' = seeded_urls(db_articles)
    /\ pre_titles' = seeded_titles(db_articles)
    /\ dedup_pc' = "seeded"
    /\ UNCHANGED <<db_articles, all_articles, url_pass, unique_articles,
                   dedup_calls>>
    /\ UNCHANGED dedupRest

\* main.py lines 74-79 -> deduplicate_articles(..., method='both'); a further
\* call passes the same list and the same two set objects.
Deduplicate ==
    /\ dedup_pc \in {"seeded", "deduped"}
    /\ dedup_calls < MaxDedupCalls
    /\ LET r == deduplicate(all_articles, existing_urls, existing_titles, "both")
       IN /\ unique_articles' = r.out
          /\ url_pass' = r.mid
          /\ existing_urls' = r.urls
          /\ existing_titles' = r.titles
    /\ pre_urls' = existing_urls
    /\ pre_titles' = existing_titles
    /\ dedup_calls' = dedup_calls + 1
    /\ dedup_pc' = "deduped"
    /\ UNCHANGED <<db_articles, all_articles>>
    /\ UNCHANGED dedupRest

DedupNext == SeedFromDb \/ Deduplicate

SpecDedup == DedupInit /\ [][DedupNext]_vars

(***************************************************************************)
(* One run of the aggregator: NewsAggregator.run, main.py lines 30-183.    *)
(***************************************************************************)
\* What scraping a source meets: whether scrape_source gets as far as
\* scraper.scrape() (it does not when the source has no URL or when
\* resolution or the construction of the scraper raises), how many of the
\* first calls of fetch() raise, and the recent articles fetch() returns
\* when it does not raise ([] on missing credentials, rate limiting or an
\* unresolved identifier).
RunArticles ==
    {[url |-> "u1", title |-> "t1"], [url |-> "u2", title |-> "t2"]}
SourceFates ==
    {f \in [resolves : BOOLEAN, raises : {0, 1, max_retries},
            articles : {<<>>} \cup {<<a>> : a \in RunArticles}] :
        ~f.resolves => f.raises = 0 /\ f.articles = <<>>}

\* Which calls of the store raise (upsert_fails is the position of the
\* article whose upsert raises, 0 for none), and the rows the store holds.
DbFates ==
    [sync_fails : BOOLEAN, history_fails : BOOLEAN,
     upsert_fails : 0..MaxSources,
     rows : {{}, {[url |-> "u1", title |-> "t1"]}}]

\* main.py lines 279-281: `except Exception` in scrape_source returns [].
scrape_error_uncaught(source) == ~source.resolves
scrape_error_propagates(source) == FALSE

\* main.py lines 53-57: update_last_fetched follows scrape_source whatever
\* it returned.
mark_due_when_scraped(articles) == articles # <<>>
mark_due(articles) == TRUE

RunInit ==
    /\ RunRestIdle
    /\ rn_pc = "start"
    /\ rn_sources \in SeqsUpTo(SourceFates, MaxSources)
    /\ rn_db \in DbFates
    /\ rn_i = 0
    /\ rn_attempt = 0
    /\ rn_result = <<>>
    /\ rn_all = <<>>
    /\ rn_unique = <<>>
    /\ rn_saved = <<>>
    /\ rn_log = <<>>

\* Steps 1 and 2, main.py lines 40-48: no source ends the run; an error of
\* upsert_source reaches the except clause of run, which raises it again.
GetSources ==
    /\ rn_pc = "start"
    /\ IF rn_sources = <<>> THEN rn_pc' = "exited" /\ rn_i' = rn_i
       ELSE IF rn_db.sync_fails THEN rn_pc' = "raised" /\ rn_i' = rn_i
       ELSE rn_pc' = "scrape" /\ rn_i' = 1
    /\ UNCHANGED <<rn_sources, rn_db, rn_attempt, rn_result, rn_all,
                   rn_unique, rn_saved, rn_log>>
    /\ UNCHANGED runRest

\* main.py line 53, scrape_source up to scraper.scrape() (lines 208-266).
BeginScrape ==
    /\ rn_pc = "scrape"
    /\ rn_log' = Append(rn_log, <<"scrape", rn_i>>)
    /\ rn_attempt' = 0
    /\ IF scrape_error_propagates(rn_sources[rn_i])
       THEN rn_pc' = "raised" /\ rn_result' = <<>>
       ELSE IF ~rn_sources[rn_i].resolves
       THEN rn_pc' = "mark" /\ rn_result' = <<>>
       ELSE rn_pc' = "fetch" /\ rn_result' = <<>>
    /\ UNCHANGED <<rn_sources, rn_db, rn_i, rn_all, rn_unique, rn_saved>>
    /\ UNCHANGED runRest

\* One iteration of the loop of fetch_with_retry, base.py lines 92-101.
FetchAttempt ==
    /\ rn_pc = "fetch"
    /\ rn_attempt' = rn_attempt + 1
    /\ rn_log' = Append(rn_log, <<"fetch", rn_i>>)
    /\ IF rn_attempt + 1 <= rn_sources[rn_i].raises
       THEN IF rn_attempt + 1 < max_retries
            THEN rn_pc' = "fetch" /\ rn_result' = <<>>
            ELSE rn_pc' = "mark" /\ rn_result' = <<>>
       ELSE rn_pc' = "mark" /\ rn_result' = rn_sources[rn_i].articles
    /\ UNCHANGED <<rn_sources, rn_db, rn_i, rn_all, rn_unique, rn_saved>>
    /\ UNCHANGED runRest

\* main.py lines 54-57: extend all_articles, update_last_fetched (which
\* catches its own errors), next source.
MarkFetched ==
    /\ rn_pc = "mark"
    /\ rn_all' = rn_all \o rn_result
    /\ rn_log' = IF mark_due(rn_result)
                 THEN Append(rn_log, <<"mark", rn_i>>)
                 ELSE rn_log
    /\ rn_i' = rn_i + 1
    /\ rn_pc' = IF rn_i < Len(rn_sources) THEN "scrape" ELSE "history"
    /\ UNCHANGED <<rn_sources, rn_db, rn_attempt, rn_result, rn_unique,
                   rn_saved>>
    /\ UNCHANGED runRest

\* Step 4, main.py lines 61-79: get_articles raises, or the sets are seeded
\* and the batch deduplicated.  Step 5 leaves the list as it is.
ReadHistory ==
    /\ rn_pc = "history"
    /\ IF rn_db.history_fails
       THEN rn_pc' = "raised" /\ rn_unique' = rn_unique
       ELSE /\ rn_pc' = "save"
            /\ rn_unique' =
                   deduplicate(rn_all, seeded_urls(rn_db.rows),
                               seeded_titles(rn_db.rows), "both").out
    /\ UNCHANGED <<rn_sources, rn_db, rn_i, rn_attempt, rn_result, rn_all,
                   rn_saved, rn_log>>
    /\ UNCHANGED runRest

\* Step 6, main.py lines 121-140, one article: an error of upsert_article
\* other than IntegrityError reaches the except clause of run (lines
\* 178-180), which raises it again.
SaveArticle ==
    /\ rn_pc = "save"
    /\ Len(rn_saved) < Len(rn_unique)
    /\ IF rn_db.upsert_fails = Len(rn_saved) + 1
       THEN rn_pc' = "raised" /\ rn_saved' = rn_saved
       ELSE /\ rn_pc' = "save"
            /\ rn_saved' = Append(rn_saved, rn_unique[Len(rn_saved) + 1])
    /\ UNCHANGED <<rn_sources, rn_db, rn_i, rn_attempt, rn_result, rn_all,
                   rn_unique, rn_log>>
    /\ UNCHANGED runRest

\* Steps 7 to 9, main.py lines 144-176.
FinishRun ==
    /\ rn_pc = "save"
    /\ Len(rn_saved) = Len(rn_unique)
    /\ rn_pc' = "done"
    /\ UNCHANGED <<rn_sources, rn_db, rn_i, rn_attempt, rn_result, rn_all,
                   rn_unique, rn_saved, rn_log>>
    /\ UNCHANGED runRest

RunNext ==
    \/ GetSources
    \/ BeginScrape
    \/ FetchAttempt
    \/ MarkFetched
    \/ ReadHistory
    \/ SaveArticle
    \/ FinishRun

SpecRun == RunInit /\ [][RunNext]_vars

(***************************************************************************)
(* The retry/throttle wrapper: AntiBotMixin.safe_request, anti_bot.py      *)
(* lines 101-149.                                                          *)
(***************************************************************************)
\* What a GET meets: a status code, a timeout, another request error.
RequestOutcomes == {"200", "429", "500", "timeout", "error"}
\* What GET <origin>/robots.txt meets, anti_bot.py lines 86-96: a policy that
\* allows the URL for "*", a policy that disallows it, status 401 or 403
\* (RobotFileParser.read raises nothing and records disallow_all), or a
\* failure that makes rp.read() raise (no connection, undecodable bytes).
RobotsAnswers == {"allow", "disallow", "forbidden", "unreadable"}

\* anti_bot.py line 134: wait_time = (attempt + 1) * 5, attempt from 0.
backoff_seconds_fixed(attempt) == 5
backoff_seconds(attempt) == attempt * 5

\* AntiBotMixin.can_fetch, anti_bot.py lines 64-99.
can_fetch(robots) == robots \notin {"disallow", "forbidden"}

\* anti_bot.py lines 89-94: the parser is stored in _robots_cache only when
\* rp.read() returned.
read_is_cached(robots) == robots # "unreadable"

RequestInit ==
    /\ RequestRestIdle
    /\ sr_pc = "ready"
    /\ sr_robots \in RobotsAnswers
    /\ sr_cached = FALSE
    /\ sr_last_request = FALSE
    /\ sr_n \in 0..MaxAttempts
    /\ sr_outcomes \in [1..sr_n -> RequestOutcomes]
    /\ sr_attempt = 0
    /\ sr_gets = 0
    /\ sr_sleeps = <<>>
    /\ sr_result = "pending"
    /\ sr_calls = 1
    /\ sr_robots_reads = 0

\* anti_bot.py lines 114-120: the robots.txt gate.  can_fetch (lines 82-96)
\* takes the parser from _robots_cache when the origin is there; otherwise it
\* reads robots.txt and stores the parser when the read returned.
CheckRobots ==
    /\ sr_pc = "ready"
    /\ IF sr_cached
       THEN UNCHANGED <<sr_cached, sr_robots_reads>>
       ELSE /\ sr_robots_reads' = sr_robots_reads + 1
            /\ sr_cached' = read_is_cached(sr_robots)
    /\ IF can_fetch(sr_robots)
       THEN sr_pc' = "loop" /\ sr_result' = sr_result
       ELSE sr_pc' = "returned" /\ sr_result' = "None"
    /\ UNCHANGED <<sr_robots, sr_last_request, sr_n, sr_outcomes, sr_attempt,
                   sr_gets, sr_sleeps, sr_calls>>
    /\ UNCHANGED requestRest

\* One iteration of the loop, anti_bot.py lines 122-146.
Attempt ==
    /\ sr_pc = "loop"
    /\ sr_attempt < sr_n
    /\ sr_attempt' = sr_attempt + 1
    /\ sr_last_request' = TRUE
    /\ sr_gets' = sr_gets + 1
    /\ LET a == sr_attempt + 1
           outcome == sr_outcomes[a]
           backoff == IF outcome = "429"
                      THEN <<<<"backoff", backoff_seconds(a)>>>>
                      ELSE <<>>
           jitter == IF a < sr_n THEN <<<<"jitter", 0>>>> ELSE <<>>
       IN IF outcome = "200"
          THEN /\ sr_pc' = "returned"
               /\ sr_result' = "response"
               /\ sr_sleeps' = sr_sleeps
          ELSE /\ sr_pc' = "loop"
               /\ sr_result' = sr_result
               /\ sr_sleeps' = sr_sleeps \o backoff \o jitter
    /\ UNCHANGED <<sr_robots, sr_cached, sr_n, sr_outcomes, sr_calls,
                   sr_robots_reads>>
    /\ UNCHANGED requestRest

\* anti_bot.py lines 148-149: the loop is over without a 200.
Exhausted ==
    /\ sr_pc = "loop"
    /\ sr_attempt >= sr_n
    /\ sr_pc' = "returned"
    /\ sr_result' = "None"
    /\ UNCHANGED <<sr_robots, sr_cached, sr_last_request, sr_n, sr_outcomes,
                   sr_attempt, sr_gets, sr_sleeps, sr_calls, sr_robots_reads>>
    /\ UNCHANGED requestRest

\* The owner of the instance calls safe_request again for the same URL:
\* _robots_cache and _last_request_time are the instance's and stay, the
\* locals of the call start afresh.  robots.txt and the server answer as
\* they did before.
CallAgain ==
    /\ sr_pc = "returned"
    /\ sr_calls < MaxCalls
    /\ sr_calls' = sr_calls + 1
    /\ sr_pc' = "ready"
    /\ sr_attempt' = 0
    /\ sr_gets' = 0
    /\ sr_sleeps' = <<>>
    /\ sr_result' = "pending"
    /\ UNCHANGED <<sr_robots, sr_cached, sr_last_request, sr_n, sr_outcomes,
                   sr_robots_reads>>
    /\ UNCHANGED requestRest

RequestNext == CheckRobots \/ Attempt \/ Exhausted \/ CallAgain

SpecRequest == RequestInit /\ [][RequestNext]_vars

\* The interpreter goes on with the call until it returns.
SpecRequestFair == SpecRequest /\ WF_vars(RequestNext)

(***************************************************************************)
(* The articles table: Database.upsert_article, database.py lines 174-221. *)
(***************************************************************************)
\* SQL NULL, the None of an omitted argument.
Null == "NULL"

\* The arguments of an upsert_article call that the claims are about: url and
\* title are always given; published_at is None or a datetime; content
\* stands for the ten optional text columns of the UPDATE.
StoreUrls == {"u1", "u2"}
StoreTitles == {"t1", "t2"}
Datetimes == {"d1", "d2"}
Contents == {"c1", "c2"}
UpsertArgs ==
    [url : StoreUrls, title : StoreTitles,
     published_at : Datetimes \cup {Null}, content : Contents \cup {Null}]

\* database.py line 183: published_at.isoformat() if published_at else None.
isoformat(published_at) ==
    CASE published_at = "d1" -> "2024-01-01T00:00:00"
      [] published_at = "d2" -> "2024-01-02T00:00:00"
      [] OTHER -> Null

\* COALESCE(?, column), database.py lines 205-214.
COALESCE(value, column) == IF value # Null THEN value ELSE column

\* url TEXT UNIQUE NOT NULL (database.py line 65): the INSERT of lines
\* 185-198 raises sqlite3.IntegrityError when a row holds the url.
integrity_error(rows, url) == \E k \in 1..Len(rows) : rows[k].url = url

\* The row the INSERT of lines 185-198 adds.
inserted_row(args) ==
    [url |-> args.url, title |-> args.title,
     published_at |-> isoformat(args.published_at),
     content |-> args.content]

\* The UPDATE of lines 203-220 on a row it selects: the columns it sets are
\* content, summary, translated_content, translated_title, image_url,
\* video_thumbnail, media_type, author, author_name and author_avatar.
updated_row(row, args) ==
    [row EXCEPT !.content = COALESCE(args.content, row.content)]

\* Database.upsert_article, database.py lines 174-221.
upsert_article(rows, args) ==
    IF integrity_error(rows, args.url)
    THEN [k \in 1..Len(rows) |->
             IF rows[k].url = args.url THEN updated_row(rows[k], args)
             ELSE rows[k]]
    ELSE Append(rows, inserted_row(args))

\* Database.__init__ on a new database file: init_database has created the
\* empty articles table.
StoreInit ==
    /\ StoreRestIdle
    /\ st_pc = "open"
    /\ st_rows = <<>>
    /\ st_prev = <<>>
    /\ st_upserts = <<>>

\* One upsert_article call; the connection commits on return.
UpsertArticle ==
    /\ st_pc = "open"
    /\ Len(st_upserts) < MaxUpserts
    /\ \E args \in UpsertArgs :
          /\ st_rows' = upsert_article(st_rows, args)
          /\ st_upserts' = Append(st_upserts, args)
    /\ st_prev' = st_rows
    /\ UNCHANGED st_pc
    /\ UNCHANGED storeRest

StoreNext == UpsertArticle

SpecStore == StoreInit /\ [][StoreNext]_vars

(***************************************************************************)
(* The source's limit: the config scrape_source builds (main.py lines      *)
(* 251-261) and the cap each scraper derives from it.                      *)
(***************************************************************************)
\* TwitterScraper.__init__, twitter.py line 16.
DEFAULT_MAX_TWEETS == 50
\* YouTubeScraper.__init__, youtube.py line 16.
DEFAULT_MAX_VIDEOS == 20
\* twitter.py lines 64 and 120: max_results = min(self.max_tweets, 100).
TWITTER_MAX_RESULTS == 100
\* youtube.py line 53: maxResults = min(self.max_videos, 50).
YOUTUBE_MAX_RESULTS == 50

Min(a, b) == IF a < b THEN a ELSE b

\* main.py line 252: the keys of config, 'max_articles' alone when
\* limit > 0 and none otherwise.
config_keys(limit) == IF limit > 0 THEN {"max_articles"} ELSE {}

\* config.get(key, default) if config else default, for a config built by
\* main.py line 252 (rss.py 15, blog.py 17, twitter.py 16, youtube.py 16).
config_get(limit, key, default) ==
    IF key \in config_keys(limit) THEN limit ELSE default

\* The number of articles fetch() returns when the endpoint offers
\* `offered` items, each of which gives an article: feed.entries
\* [:self.max_articles] (rss.py 36), article_elements[:self.max_articles]
\* (blog.py 52), max_results of the timeline request (twitter.py 64, 120),
\* maxResults of the search request (youtube.py 53).
fetch_count(type, limit, offered) ==
    CASE type = "rss" ->
           Min(offered,
               config_get(limit, "max_articles", RSS_DEFAULT_MAX_ARTICLES))
      [] type = "blog" ->
           Min(offered,
               config_get(limit, "max_articles", BLOG_DEFAULT_MAX_ARTICLES))
      [] type = "twitter" ->
           Min(offered,
               Min(config_get(limit, "max_tweets", DEFAULT_MAX_TWEETS),
                   TWITTER_MAX_RESULTS))
      [] type = "youtube" ->
           Min(offered,
               Min(config_get(limit, "max_videos", DEFAULT_MAX_VIDEOS),
                   YOUTUBE_MAX_RESULTS))

\* A source of one of the four types, its limit, and an endpoint.
LimitInit ==
    /\ LimitRestIdle
    /\ lm_pc = "ready"
    /\ lm_type \in {"rss", "blog", "twitter", "youtube"}
    /\ lm_limit \in 0..MaxLimit
    /\ lm_offered \in 0..MaxOffered
    /\ lm_returned = 0

\* scraper.fetch() of the scraper that lines 254-261 of main.py construct.
Fetch ==
    /\ lm_pc = "ready"
    /\ lm_returned' = fetch_count(lm_type, lm_limit, lm_offered)
    /\ lm_pc' = "fetched"
    /\ UNCHANGED <<lm_type, lm_limit, lm_offered>>
    /\ UNCHANGED limitRest

LimitNext == Fetch

SpecLimit == LimitInit /\ [][LimitNext]_vars

(***************************************************************************)
(* Steps 3 and 4 of run(), main.py lines 50-79, with the scrapes of the    *)
(* sources finishing in any order: each finished scrape extends            *)
(* all_articles, and one deduplicate call consumes the whole list.  The    *)
(* loop of lines 52-57 is the behaviour in which they finish in list order.*)
(***************************************************************************)
\* What a scrape of source k may return: scrape_source tags each article
\* with the notion_id of its source (main.py line 271).
SourceCandidates(k) ==
    [url : {"u1", "u2"}, title : {"t1", "t2"}, notion_id : {k}]

\* The store holds nothing, or one article scraped on an earlier run.
GatherDbs == {{}, {[url |-> "u1", title |-> "t1"]}}

\* main.py line 54: all_articles.extend(articles).
extend_replaces(list, articles) == articles
extend(list, articles) == list \o articles

\* all_articles after the loop of main.py lines 52-57 has taken the sources
\* k..MaxWorkers in list order.
RECURSIVE scrape_in_list_order(_, _, _)
scrape_in_list_order(results, k, list) ==
    IF k > Len(results) THEN list
    ELSE scrape_in_list_order(results, k + 1, extend(list, results[k]))

\* main.py lines 61-79: unique_articles for the candidates in `list`.
unique_of(list, rows) ==
    deduplicate(list, seeded_urls(rows), seeded_titles(rows), "both").out

GatherInit ==
    /\ GatherRestIdle
    /\ ga_pc = "scraping"
    /\ ga_db \in GatherDbs
    /\ ga_results \in
          {r \in [1..MaxWorkers ->
                    UNION {SeqsUpTo(SourceCandidates(k), MaxPerSource) :
                             k \in 1..MaxWorkers}] :
              \A k \in 1..MaxWorkers :
                 \A n \in 1..Len(r[k]) : r[k][n].notion_id = k}
    /\ ga_running = 1..MaxWorkers
    /\ ga_order = <<>>
    /\ ga_all = <<>>
    /\ ga_unique = <<>>

\* The scrape of a source finishes: main.py lines 53-54.
FinishScrape ==
    /\ ga_pc = "scraping"
    /\ \E k \in ga_running :
          /\ ga_all' = extend(ga_all, ga_results[k])
          /\ ga_running' = ga_running \ {k}
          /\ ga_order' = Append(ga_order, k)
    /\ UNCHANGED <<ga_pc, ga_db, ga_results, ga_unique>>
    /\ UNCHANGED gatherRest

\* main.py lines 61-79, once every scrape has finished.
DeduplicateAll ==
    /\ ga_pc = "scraping"
    /\ ga_running = {}
    /\ ga_unique' = unique_of(ga_all, ga_db)
    /\ ga_pc' = "deduped"
    /\ UNCHANGED <<ga_db, ga_results, ga_running, ga_order, ga_all>>
    /\ UNCHANGED gatherRest

GatherNext == FinishScrape \/ DeduplicateAll

SpecGather == GatherInit /\ [][GatherNext]_vars

(***************************************************************************)
(* Claims about the deduplication engine.                                  *)
(***************************************************************************)

\* The candidate at position k carries a URL that no earlier candidate of the
\* list carries and that was not in existing_urls when the call started.
UrlNotSeenBefore(k) ==
    /\ all_articles[k].url \notin pre_urls
    /\ \A m \in 1..(k - 1) : all_articles[m].url # all_articles[k].url

\* The same for the title of the candidate at position k.
TitleNotSeenBefore(k) ==
    /\ md5(all_articles[k].title) \notin pre_titles
    /\ \A m \in 1..(k - 1) : all_articles[m].title # all_articles[k].title

\* Positions i < j holding the same title under different URLs, neither URL
\* nor the title seen before.
SameTitlePair(i, j) ==
    /\ i < j
    /\ all_articles[i].title = all_articles[j].title
    /\ all_articles[i].url # all_articles[j].url
    /\ UrlNotSeenBefore(i)
    /\ UrlNotSeenBefore(j)
    /\ TitleNotSeenBefore(i)

\* Both survive the URL pass, only the first survives the title pass, and the
\* title pass has looked at nothing but the survivors of the URL pass.
OnlyFirstSurvivesTitlePass(i, j) ==
    /\ InSeq(all_articles[i], url_pass)
    /\ InSeq(all_articles[j], url_pass)
    /\ InSeq(all_articles[i], unique_articles)
    /\ ~InSeq(all_articles[j], unique_articles)
    /\ existing_titles = pre_titles \cup
           {md5(url_pass[k].title) :
               k \in {n \in 1..Len(url_pass) : url_pass[n].title # ""}}

\* C1: a second deduplicate call (method 'both') on the same candidate list
\* with the same, now mutated, sets returns the empty list.
C1_DedupIdempotent ==
    dedup_calls >= 2 => unique_articles = <<>>

\* A second call has returned, after a first call that kept something.
C1_Witness ==
    /\ dedup_calls >= 2
    /\ existing_titles # seeded_titles(db_articles)
    /\ unique_articles = <<>>

\* C2 as stated: of two candidates (articles, so their URLs are non-empty)
\* with the same title and different URLs, neither seen before, both survive
\* the URL pass and exactly the first survives the title pass.
C2_AsStated ==
    dedup_calls = 1 =>
        \A i, j \in 1..Len(all_articles) :
            (/\ SameTitlePair(i, j)
             /\ all_articles[i].url # ""
             /\ all_articles[j].url # "") => OnlyFirstSurvivesTitlePass(i, j)

\* C2 amended: the same, for two candidates whose URLs and whose shared title
\* are non-empty; a candidate with an empty URL is dropped by the URL pass and
\* one with an empty title by the title pass.
C2_OrderSensitivity ==
    dedup_calls = 1 =>
        \A i, j \in 1..Len(all_articles) :
            (/\ SameTitlePair(i, j)
             /\ all_articles[i].url # ""
             /\ all_articles[j].url # ""
             /\ all_articles[i].title # "") => OnlyFirstSurvivesTitlePass(i, j)

\* A call has handled two fresh candidates that share a non-empty title.
C2_Witness ==
    /\ dedup_calls = 1
    /\ \E i, j \in 1..Len(all_articles) :
          /\ SameTitlePair(i, j)
          /\ all_articles[i].url # ""
          /\ all_articles[j].url # ""
          /\ all_articles[i].title # ""
          /\ Len(url_pass) > Len(unique_articles)

\* The batch of end-to-end scenario 1: three entries with pairwise distinct
\* titles; the URL of exactly one is persisted, the other two are new.
ThreeEntriesOnePersisted ==
    /\ Len(all_articles) = 3
    /\ \A i, j \in 1..3 : i # j => all_articles[i].title # all_articles[j].title
    /\ \E d \in 1..3 :
          /\ all_articles[d].url \in seeded_urls(db_articles)
          /\ \A k \in (1..3) \ {d} :
                /\ all_articles[k].url # ""
                /\ all_articles[k].url \notin seeded_urls(db_articles)
                /\ all_articles[k].title # ""
                /\ md5(all_articles[k].title) \notin seeded_titles(db_articles)
          /\ \A k, m \in (1..3) \ {d} :
                k # m => all_articles[k].url # all_articles[m].url

RecencyDone == rf_pc \in {"filtered", "scraped"}
Boundary == cutoff_time(rf_now, rf_hours)

\* C4 as stated: an article whose publishedAt is exactly now - w is excluded
\* from the filter's output and one a microsecond later is included.
C4_AsStated ==
    RecencyDone =>
        \A k \in 1..Len(rf_articles) :
            LET p == rf_articles[k].published_at IN
            p # None =>
                /\ (p.wall = Boundary => ~InSeq(rf_articles[k], rf_filtered))
                /\ (p.wall = Boundary + 1 => InSeq(rf_articles[k], rf_filtered))

\* C4 amended: an article whose publishedAt is exactly now - w is included in
\* the filter's output, as is one a microsecond later; one a microsecond
\* before now - w is excluded.
C4_RecencyBoundary ==
    RecencyDone =>
        \A k \in 1..Len(rf_articles) :
            LET p == rf_articles[k].published_at IN
            p # None =>
                /\ (p.wall = Boundary => InSeq(rf_articles[k], rf_filtered))
                /\ (p.wall = Boundary + 1 => InSeq(rf_articles[k], rf_filtered))
                /\ (p.wall = Boundary - 1 => ~InSeq(rf_articles[k], rf_filtered))

\* The filter has handled one article at the boundary and one a tick before.
C4_Witness ==
    /\ RecencyDone
    /\ \E k, m \in 1..Len(rf_articles) :
          /\ rf_articles[k].published_at # None
          /\ rf_articles[m].published_at # None
          /\ rf_articles[k].published_at.wall = Boundary
          /\ rf_articles[m].published_at.wall = Boundary - 1
    /\ Len(rf_filtered) = 1

(***************************************************************************)
(* Claims about the needs-translation heuristic.                           *)
(***************************************************************************)
\* Positions of the string holding a basic-Latin letter, an alphanumeric.
LatinPositions == {k \in 1..Len(nt_text) : nt_text[k] = "a"}
AlnumPositions == {k \in 1..Len(nt_text) : nt_text[k] # "!"}

\* "At least one alphanumeric character and Latin / alphanumeric > 0.3."
RatioAboveThreeTenths ==
    /\ Cardinality(AlnumPositions) >= 1
    /\ 10 * Cardinality(LatinPositions) > 3 * Cardinality(AlnumPositions)

\* C5: the heuristic (both implementations) returns true exactly when the
\* string has at least one alphanumeric character and its basic-Latin letters
\* are more than 0.3 of its alphanumeric characters; so no alphanumeric
\* character gives false, 40% Latin gives true, no Latin letter gives false.
C5_NeedsTranslation ==
    /\ "main" \in nt_done => (nt_main <=> RatioAboveThreeTenths)
    /\ "translator" \in nt_done => (nt_translator <=> RatioAboveThreeTenths)
    /\ nt_done = {"main", "translator"} =>
          /\ (AlnumPositions = {} => ~nt_main /\ ~nt_translator)
          /\ (LatinPositions = {} => ~nt_main /\ ~nt_translator)
          /\ (5 * Cardinality(LatinPositions) = 2 * Cardinality(AlnumPositions)
                /\ AlnumPositions # {} => nt_main /\ nt_translator)

\* Both implementations have judged a string that is 40% Latin letters.
C5_Witness ==
    /\ nt_done = {"main", "translator"}
    /\ Cardinality(AlnumPositions) = 5
    /\ Cardinality(LatinPositions) = 2
    /\ nt_main
    /\ nt_translator

(***************************************************************************)
(* Claims about summarize_and_translate.                                   *)
(***************************************************************************)
\* The text the provider handed back (empty when the request failed).
ProviderText == call_api(sm_reply)

\* The text cannot be parsed as the JSON object: it has no object between a
\* first "{" and a last "}".
NotParsable == try_parse(ProviderText) # "parsed"

\* C7: when the provider's text cannot be parsed as the expected JSON object,
\* summarize_and_translate of DeepSeek and of OpenAI raises nothing and
\* returns summary = "" and translated = the raw text ("" when it is empty).
C7_MalformedReply ==
    (sm_pc = "returned" /\ sm_provider \in NativeProviders /\ NotParsable) =>
        /\ ~sm_result.raised
        /\ sm_result.summary = <<>>
        /\ sm_result.translated = ProviderText

\* A native provider returned after a reply with braces that json.loads
\* rejects.
C7_Witness ==
    /\ sm_pc = "returned"
    /\ sm_provider \in NativeProviders
    /\ try_parse(ProviderText) = "raised"
    /\ sm_result.translated = ProviderText
    /\ ProviderText # <<>>

(***************************************************************************)
(* Claims about the translation stage.                                     *)
(***************************************************************************)
IsTwitter(k) == tp_articles[k].source_type = "twitter"

\* C6: for a social-timeline article with content of at most 30 characters
\* the stage never calls summarize_and_translate and leaves summary and
\* translated_content unset, while its title, when it passes the heuristic,
\* is still translated (translated_title is the provider's non-empty result);
\* with a translator at hand summarize_and_translate is called exactly when
\* the content is longer than 30.
C6_ShortSocialArticle ==
    \A k \in 1..Len(tp_articles) :
        IsTwitter(k) =>
            /\ tp_articles[k].content_len <= 30 =>
                  /\ tp_calls[k].summarize = 0
                  /\ tp_articles[k].summary = Unset
                  /\ tp_articles[k].translated_content = Unset
            /\ tp_calls[k].summarize > 0 => tp_articles[k].content_len > 30
            /\ (tp_pc = "translated" /\ tp_translator # "None") =>
                  /\ tp_calls[k].summarize =
                         (IF tp_articles[k].content_len > 30 THEN 1 ELSE 0)
                  /\ needs_translation_main(tp_articles[k].title) =>
                        /\ tp_calls[k].translate = 1
                        /\ tp_calls[k].title_reply # <<>> =>
                              tp_articles[k].translated_title =
                                  tp_calls[k].title_reply

\* The stage is over for a social-timeline article with 30 characters of
\* content and an English title, which the provider translated.
C6_Witness ==
    /\ tp_pc = "translated"
    /\ \E k \in 1..Len(tp_articles) :
          /\ IsTwitter(k)
          /\ tp_articles[k].content_len = 30
          /\ tp_articles[k].title = <<"a", "a">>
          /\ tp_articles[k].translated_title = <<"x">>
          /\ tp_articles[k].summary = Unset
          /\ tp_articles[k].translated_content = Unset
    /\ \E k \in 1..Len(tp_articles) :
          /\ IsTwitter(k)
          /\ tp_calls[k].summarize = 1

(***************************************************************************)
(* Claims about feed auto-discovery.                                       *)
(***************************************************************************)
\* A GET of the URL returns 200 with a feed: the candidate validates.
Validates(u) == response(dv_web, u) \in {"feed_type", "feed_body"}

\* The feed links the fetched page declares, resolved against the page URL.
DeclaredFeeds ==
    IF dv_page_ok
    THEN {urljoin(PageUrl, dv_links[k].href) :
             k \in {n \in 1..Len(dv_links) :
                       /\ dv_links[n].href # ""
                       /\ \E t \in 1..Len(link_types) :
                              link_types[t] = dv_links[n].type}}
    ELSE {}

\* The well-known path at position k of the list, against the page's origin.
WellKnown(k) == [origin |-> SiteOrigin, path |-> COMMON_RSS_PATHS[k]]
ValidWellKnown == {k \in 1..Len(COMMON_RSS_PATHS) : Validates(WellKnown(k))}

\* The requests of the call after the GET of the page, as a sequence.
FeedProbes == SubSeq(dv_probes, 2, Len(dv_probes))

\* C8: discovery validates the feed links of the page head first and the
\* well-known paths second; when every declared link fails validation it
\* probes the well-known paths in list order against the page origin and
\* returns the first that validates; it returns nothing only when no
\* candidate of either strategy validates.
C8_HeadThenWellKnown ==
    dv_pc = "discovered" =>
        /\ (\A u \in DeclaredFeeds : ~Validates(u)) =>
              /\ ValidWellKnown # {} =>
                    /\ dv_feed = WellKnown(First(ValidWellKnown))
                    /\ \A k \in 1..First(ValidWellKnown) :
                          FeedProbes[Len(FeedProbes) - First(ValidWellKnown) + k]
                              = WellKnown(k)
              /\ ValidWellKnown = {} => dv_feed = NoUrl
        /\ (\E u \in DeclaredFeeds : Validates(u)) =>
              /\ dv_feed \in DeclaredFeeds
              /\ \A k \in 1..Len(FeedProbes) : FeedProbes[k] \in DeclaredFeeds
        /\ dv_feed = NoUrl =>
              /\ \A u \in DeclaredFeeds : ~Validates(u)
              /\ ValidWellKnown = {}

\* The page declares a feed link that answers 404, /feed and /rss do not
\* validate, /rss.xml answers 200 with a feed body, and discovery returned
\* /rss.xml.
C8_Witness ==
    /\ dv_pc = "discovered"
    /\ dv_page_ok
    /\ DeclaredFeeds # {}
    /\ \A u \in DeclaredFeeds : response(dv_web, u) = "404"
    /\ First(ValidWellKnown \cup {Len(COMMON_RSS_PATHS)}) = 3
    /\ response(dv_web, WellKnown(3)) = "feed_body"
    /\ dv_feed = WellKnown(3)

(***************************************************************************)
(* Claims about the feed scraper and the page scraper.                     *)
(***************************************************************************)
\* C9: every article the feed scraper or the page scraper outputs has a
\* non-empty url: a feed entry without a link is dropped (every article of
\* the feed scraper carries the link of an entry that has one), and no page
\* element yields an article with an empty url.
C9_NonEmptyUrl ==
    sc_pc = "scraped" =>
        /\ \A k \in 1..Len(sc_out) : sc_out[k].url # NoUrl
        /\ sc_kind = "rss" =>
              /\ \A k \in 1..Len(sc_out) :
                    \E n \in 1..Len(sc_entries) :
                        /\ sc_entries[n].link # NoUrl
                        /\ sc_entries[n].link = sc_out[k].url
              /\ Len(sc_out) <=
                    Cardinality({n \in 1..Len(sc_entries) :
                                    sc_entries[n].link # NoUrl})

\* The feed scraper has dropped an entry without link and kept one with.
C9_Witness ==
    /\ sc_pc = "scraped"
    /\ sc_kind = "rss"
    /\ \E n \in 1..Len(sc_entries) :
          /\ sc_entries[n].link = NoUrl
          /\ ~sc_entries[n].malformed
          /\ sc_entries[n].published # "old"
    /\ Len(sc_out) = 1
    /\ Len(sc_entries) = 2

(***************************************************************************)
(* Claims about source resolution.                                         *)
(***************************************************************************)
FeedUrlSet == rs_pc = "resolved" /\ rs_feed_url # NoUrl

\* C10: for every source whose Feed URL is set, whatever its type, the
\* scraper constructed is the feed scraper (effective type rss) and the URL
\* it is constructed with is the Feed URL.
C10_FeedUrlGivesFeedScraper ==
    FeedUrlSet =>
        /\ rs_actual_type = "rss"
        /\ rs_scraper = "rss"
        /\ rs_actual_url = rs_feed_url

\* The half of rule 1 the code keeps: the URL is the Feed URL, and no
\* discovery request is made.
C10_FeedUrlIsEffectiveUrl ==
    FeedUrlSet => rs_actual_url = rs_feed_url /\ rs_probes = <<>>

\* A source with a Feed URL for which the page scraper is constructed.
C10_FeedUrlWithPageScraper ==
    /\ FeedUrlSet
    /\ rs_feed_url = [origin |-> BlogOrigin, path |-> "/atom.xml"]
    /\ rs_url = [origin |-> BlogOrigin, path |-> "/blog"]
    /\ rs_scraper = "blog"

\* A source without Feed URL that get_active_sources typed twitter or
\* youtube, resolved.
SocialOrVideo ==
    /\ rs_pc = "resolved"
    /\ rs_feed_url = NoUrl
    /\ rs_type \in {"twitter", "youtube"}

\* C11: a source without Feed URL whose type is twitter or youtube resolves
\* to that same type (its scraper is the one constructed) with the URL
\* property as effective URL, and discovery issues no HTTP request while it
\* is resolved, nor while a source with a Feed URL is resolved.
C11_SocialVideoNoProbe ==
    /\ SocialOrVideo =>
          /\ rs_actual_type = rs_type
          /\ rs_scraper = rs_type
          /\ rs_actual_url = rs_url
          /\ rs_url # NoUrl
          /\ rs_probes = <<>>
    /\ FeedUrlSet => rs_probes = <<>>

\* A twitter source was resolved whose page fetch would have succeeded and
\* which discovery would have probed.
C11_Witness ==
    /\ SocialOrVideo
    /\ rs_url = [origin |-> XOrigin, path |-> "/user"]
    /\ rs_scraper = "twitter"
    /\ rs_page_ok
    /\ rs_probes = <<>>

\* A source without Feed URL, with a URL, typed neither twitter nor youtube,
\* resolved.
PlainPage ==
    /\ rs_pc = "resolved"
    /\ rs_feed_url = NoUrl
    /\ rs_url # NoUrl
    /\ rs_type \notin {"twitter", "youtube"}

\* The feed candidates of the source: the feed links its page declares (none
\* when the page could not be fetched) and the well-known paths.
RsValidates(u) == response(rs_web, u) \in {"feed_type", "feed_body"}
RsCandidates ==
    {urljoin(rs_url, rs_links[k].href) :
        k \in {n \in 1..Len(rs_links) :
                  /\ rs_page_ok
                  /\ rs_links[n].href # ""
                  /\ \E t \in 1..Len(link_types) :
                         link_types[t] = rs_links[n].type}}
    \cup {urljoin(base_url(rs_url), COMMON_RSS_PATHS[k]) :
             k \in 1..Len(COMMON_RSS_PATHS)}
RsProbed == {rs_probes[k] : k \in 1..Len(rs_probes)}

\* C12: for a source without Feed URL and of type neither twitter nor
\* youtube, the feed scraper is constructed on the discovered feed when a
\* candidate validates, and the page scraper on the URL otherwise; a failed
\* request (of the page or of a candidate) counts as an invalid candidate,
\* the remaining candidates are still tried, and a scraper is constructed.
C12_DiscoverOrPage ==
    PlainPage =>
        /\ rs_scraper \in {"rss", "blog"}
        /\ rs_actual_type = rs_scraper
        /\ (\E u \in RsCandidates : RsValidates(u)) =>
              /\ rs_scraper = "rss"
              /\ rs_actual_url \in RsCandidates
              /\ RsValidates(rs_actual_url)
        /\ (\A u \in RsCandidates : ~RsValidates(u)) =>
              /\ rs_scraper = "blog"
              /\ rs_actual_url = rs_url
              /\ RsCandidates \subseteq RsProbed
        /\ rs_probes # <<>>
        /\ rs_probes[1] = rs_url

\* The request of a declared feed link failed, and the well-known path /feed
\* was still tried and is the feed of the source.
C12_Witness ==
    /\ PlainPage
    /\ rs_page_ok
    /\ Len(rs_links) = 1
    /\ urljoin(rs_url, rs_links[1].href) \in RsProbed
    /\ response(rs_web, urljoin(rs_url, rs_links[1].href)) = "error"
    /\ rs_scraper = "rss"
    /\ rs_actual_url = [origin |-> BlogOrigin, path |-> "/feed"]

(***************************************************************************)
(* Claims about the translate flag and the kinds of articles.              *)
(***************************************************************************)
\* C13 as stated: for every article whose source has translate = false the
\* stage calls neither translate nor summarize_and_translate and leaves
\* translated_title, translated_content and summary unset.
C13_TranslateFlagGates ==
    \A k \in 1..Len(tp_articles) :
        ~tp_articles[k].translate =>
            /\ tp_calls[k].summarize = 0
            /\ tp_calls[k].translate = 0
            /\ tp_articles[k].summary = Unset
            /\ tp_articles[k].translated_content = Unset
            /\ tp_articles[k].translated_title = Unset

NoTranslator ==
    \/ tp_translator = "None"
    \/ tp_type \in KeyProviders /\ ~tp_api_key

\* C15: when the configured provider name is unknown or the provider has no
\* credentials, no step of the translation stage changes an article: the
\* list of unique articles that goes on to storage is the one that came in.
C15_NoTranslatorNoOp ==
    [][NoTranslator => tp_articles' = tp_articles]_vars

\* The stage is over, with a keyless DeepSeek translator, for a Twitter
\* article with long content and an English title: both provider methods
\* were called and no field was set.
C15_Witness ==
    /\ tp_pc = "translated"
    /\ tp_type = "deepseek"
    /\ ~tp_api_key
    /\ Len(tp_articles) = 2
    /\ \E k \in 1..Len(tp_articles) :
          /\ IsTwitter(k)
          /\ tp_articles[k].content_len = 31
          /\ tp_articles[k].title = <<"a", "a">>
          /\ tp_calls[k].summarize = 1
          /\ tp_calls[k].translate = 1
          /\ tp_articles[k].summary = Unset
          /\ tp_articles[k].translated_content = Unset
          /\ tp_articles[k].translated_title = Unset

\* The provider calls run() makes for article k when a translator exists.
TitleCallsDue(k) ==
    IF tp_articles[k].title # <<>>
          /\ needs_translation_main(tp_articles[k].title)
    THEN 1 ELSE 0
ContentCallsDue(k) ==
    IF IsTwitter(k) /\ tp_articles[k].content_len > 30 THEN 1 ELSE 0

\* C16: a failed provider request (network error, HTTP error, unusable
\* response body) for an article leaves the derived field it was made for
\* unset, and once the stage is over every article is still in the list and
\* every call due was made, whatever failed before it.
C16_ProviderFailureContained ==
    \A k \in 1..Len(tp_articles) :
        /\ tp_calls[k].title_failed =>
              tp_articles[k].translated_title = Unset
        /\ tp_calls[k].content_failed =>
              /\ tp_articles[k].summary = Unset
              /\ tp_articles[k].translated_content = Unset
        /\ (tp_pc = "translated" /\ tp_translator # "None") =>
              /\ tp_calls[k].translate = TitleCallsDue(k)
              /\ tp_calls[k].summarize = ContentCallsDue(k)

\* Both requests for the first article failed, and the title of the second
\* was translated after that.
C16_Witness ==
    /\ tp_pc = "translated"
    /\ tp_api_key
    /\ Len(tp_articles) = 2
    /\ IsTwitter(1)
    /\ tp_calls[1].title_failed
    /\ tp_calls[1].content_failed
    /\ tp_articles[1].translated_title = Unset
    /\ tp_articles[1].summary = Unset
    /\ tp_articles[2].translated_title = <<"x">>

(***************************************************************************)
(* Claims about a run.                                                     *)
(***************************************************************************)
\* C17 as stated: when there is a source and the sources were synchronised,
\* the run is not ended by an error of the store while it reads the
\* persisted history or upserts an article.
C17_StorageFailureDoesNotAbort ==
    rn_pc = "raised" => rn_sources = <<>> \/ rn_db.sync_fails

\* The run was ended by the upsert of the first of two unique articles: the
\* second one is never upserted.
C17_AbortedOnUpsert ==
    /\ rn_pc = "raised"
    /\ Len(rn_unique) = 2
    /\ rn_db.upsert_fails = 1
    /\ rn_saved = <<>>

\* What source k adds to all_articles: nothing when its scrape failed.
Contribution(k) ==
    IF rn_sources[k].resolves /\ rn_sources[k].raises < max_retries
    THEN rn_sources[k].articles
    ELSE <<>>
RECURSIVE ContributionsUpTo(_)
ContributionsUpTo(n) ==
    IF n = 0 THEN <<>> ELSE ContributionsUpTo(n - 1) \o Contribution(n)

\* The loop of step 3 is over.
ScrapingOver == rn_i > Len(rn_sources) /\ rn_sources # <<>>
LogPositions(event, k) ==
    {p \in 1..Len(rn_log) : rn_log[p] = <<event, k>>}

\* C18: a source whose scrape fails in any way adds an empty list; every
\* other source is still scraped, and the articles of the others are the
\* list handed to deduplication.  No failure of a scrape ends the run.
C18_SourceFailureIsolated ==
    /\ rn_pc \in {"scrape", "fetch", "mark"} =>
          rn_all = ContributionsUpTo(rn_i - 1)
    /\ ScrapingOver =>
          /\ \A k \in 1..Len(rn_sources) : LogPositions("scrape", k) # {}
          /\ rn_all = ContributionsUpTo(Len(rn_sources))
    /\ rn_pc \in {"save", "done"} =>
          rn_unique = deduplicate(ContributionsUpTo(Len(rn_sources)),
                                  seeded_urls(rn_db.rows),
                                  seeded_titles(rn_db.rows), "both").out
    /\ rn_pc = "raised" =>
          \/ rn_db.sync_fails /\ rn_log = <<>>
          \/ ScrapingOver

\* The first source failed (resolution raised, or every attempt of fetch
\* did), the second was scraped and its article is in unique_articles.
C18_Witness ==
    /\ rn_pc = "save"
    /\ Len(rn_sources) = 2
    /\ Contribution(1) = <<>>
    /\ ~rn_sources[1].resolves \/ rn_sources[1].raises = max_retries
    /\ Contribution(2) # <<>>
    /\ rn_unique = Contribution(2)

\* C19: the sources are processed one after another in list order: every
\* step of the scrape of a source, its fetch attempts included, comes before
\* update_last_fetched for it, the scrape of the next source begins after
\* that call only, and the call is made exactly once per source, also for a
\* source whose scrape returned nothing.
C19_SequentialSources ==
    /\ \A p, q \in 1..Len(rn_log) :
          p < q =>
             /\ rn_log[p][2] <= rn_log[q][2]
             /\ rn_log[p][1] = "mark" => rn_log[p][2] < rn_log[q][2]
    /\ \A p \in 1..Len(rn_log) :
          (rn_log[p][1] = "scrape" /\ rn_log[p][2] > 1) =>
              \E q \in 1..(p - 1) : rn_log[q] = <<"mark", rn_log[p][2] - 1>>
    /\ \A k \in 1..Len(rn_sources) :
          /\ Cardinality(LogPositions("scrape", k)) <= 1
          /\ Cardinality(LogPositions("fetch", k)) <= max_retries
          /\ Cardinality(LogPositions("mark", k)) <= 1
          /\ ScrapingOver => Cardinality(LogPositions("mark", k)) = 1

\* Every attempt of the first source's fetch raised; update_last_fetched
\* was called for it and then the second source was scraped.
C19_Witness ==
    /\ ScrapingOver
    /\ Len(rn_sources) = 2
    /\ rn_sources[1].raises = max_retries
    /\ Cardinality(LogPositions("fetch", 1)) = max_retries
    /\ Cardinality(LogPositions("mark", 1)) = 1
    /\ Cardinality(LogPositions("fetch", 2)) = 2
    /\ Cardinality(LogPositions("mark", 2)) = 1

(***************************************************************************)
(* Claims about the retry/throttle wrapper.                                *)
(***************************************************************************)
\* The GETs that did not meet a 200, among the first n.
FailedGets(n) == {a \in 1..n : sr_outcomes[a] # "200"}
BackoffAt(a) ==
    {p \in 1..Len(sr_sleeps) : sr_sleeps[p] = <<"backoff", a * 5>>}

\* What C20 says of every state of a call.
RetryLoopInvariant ==
    /\ sr_gets <= sr_n
    /\ sr_gets = sr_attempt
    /\ sr_result = "response" =>
          /\ sr_pc = "returned"
          /\ sr_outcomes[sr_gets] = "200"
          /\ FailedGets(sr_gets - 1) = 1..(sr_gets - 1)
    /\ \A a \in 1..sr_n :
          /\ (a <= sr_gets /\ sr_outcomes[a] = "429") =>
                Cardinality(BackoffAt(a)) = 1
          /\ (a > sr_gets \/ sr_outcomes[a] # "429") => BackoffAt(a) = {}
    /\ \A p \in 1..Len(sr_sleeps) :
          sr_sleeps[p][1] = "backoff" =>
             \/ p < Len(sr_sleeps) /\ sr_sleeps[p + 1][1] = "jitter"
             \/ p = Len(sr_sleeps) /\ sr_gets = sr_n
    /\ (sr_pc = "returned" /\ can_fetch(sr_robots)) =>
          (sr_result = "None" <=>
              sr_gets = sr_n /\ FailedGets(sr_n) = 1..sr_n)

\* C20: a call with bound N makes at most N GETs and always returns; it
\* returns the first response with status 200 and makes no request after it;
\* after a 429 on attempt a it sleeps a * 5 seconds before the next attempt;
\* once the robots gate is passed it returns None exactly when all N
\* attempts met a status other than 200, a timeout or a request error.
C20_RetryLoop == []RetryLoopInvariant /\ <>(sr_pc = "returned")

\* A call with N = 3 met a 429, then a timeout, then a 200: it slept 5
\* seconds after the first attempt and returned the third response.
C20_Witness ==
    /\ sr_pc = "returned"
    /\ sr_n = 3
    /\ sr_outcomes = <<"429", "timeout", "200">>
    /\ sr_gets = 3
    /\ sr_result = "response"
    /\ sr_sleeps = <<<<"backoff", 5>>, <<"jitter", 0>>, <<"jitter", 0>>>>

\* The answers of robots.txt that refuse the URL to the agent "*".
RobotsDisallows == sr_robots \in {"disallow", "forbidden"}

\* C21: once the gate of a call has run, a disallowed URL has made the call
\* return None with no GET and no sleep; when robots.txt could not be read
\* the call was let through to the loop (with a bound of at least one it
\* returns only after a GET); and the instance has read the robots.txt of
\* the origin at most once, however many calls it served.
C21_RobotsGate ==
    /\ (RobotsDisallows /\ sr_pc # "ready") =>
          /\ sr_pc = "returned"
          /\ sr_result = "None"
          /\ sr_gets = 0
          /\ sr_sleeps = <<>>
    /\ (sr_robots = "unreadable" /\ sr_pc = "returned" /\ sr_n > 0) =>
          sr_gets > 0
    /\ sr_robots_reads <= 1

(***************************************************************************)
(* Claims about the retry loop of the scrapers.                            *)
(***************************************************************************)
\* The positions of sc_log that hold the event e.
LogEvents(e) == {p \in 1..Len(sc_log) : sc_log[p] = e}

\* What self.fetch() returns for the scraper at hand when it does not raise.
FetchReturns ==
    IF sc_kind = "rss" THEN rss_fetch(sc_entries, sc_limit)
    ELSE blog_fetch(sc_url, sc_page_ok, sc_matches, sc_limit)

\* C22: when scrape() has returned, fetch() was invoked at most max_retries
\* times and not once more after the first invocation that did not raise;
\* every sleep of the loop lies between two invocations, and there is one
\* between any two; when every invocation raised the result is empty; and
\* what scrape() returned is the result of the loop passed through the
\* recency filter.
C22_FetchWithRetry ==
    sc_pc = "scraped" =>
       /\ Cardinality(LogEvents("fetch")) <= max_retries
       /\ sc_raises < max_retries =>
             Cardinality(LogEvents("fetch")) = sc_raises + 1
       /\ sc_raises >= max_retries =>
             /\ Cardinality(LogEvents("fetch")) = max_retries
             /\ sc_out = <<>>
       /\ \A p \in LogEvents("sleep") :
             /\ p > 1 /\ sc_log[p - 1] = "fetch"
             /\ p < Len(sc_log) /\ sc_log[p + 1] = "fetch"
       /\ \A p \in LogEvents("fetch") :
             p < Len(sc_log) => sc_log[p + 1] = "sleep"
       /\ sc_out = filter_recent(
                      IF sc_raises < max_retries THEN FetchReturns ELSE <<>>,
                      SCRAPE_HOURS, ScrapeNow)

\* The first two invocations raised and the third returned a recent entry:
\* three invocations, a sleep after the first and after the second.
C22_Witness ==
    /\ sc_pc = "scraped"
    /\ sc_kind = "rss"
    /\ sc_raises = 2
    /\ sc_log = <<"fetch", "sleep", "fetch", "sleep", "fetch">>
    /\ Len(sc_out) = 1

\* C23: when the GET of the listing page failed (a timeout, a connection
\* reset), the page scraper has fetched again, max_retries times in all with
\* a delay between two attempts, before it gave the empty result.  Each
\* fetch() invocation makes the one GET of blog.py line 30.
C23_TransientRetried ==
    (sc_pc = "scraped" /\ sc_kind = "blog" /\ sc_url # NoUrl /\ ~sc_page_ok) =>
       /\ sc_out = <<>>
       /\ Cardinality(LogEvents("fetch")) = max_retries
       /\ Cardinality(LogEvents("sleep")) = max_retries - 1

(***************************************************************************)
(* Claims about the articles table.                                        *)
(***************************************************************************)
\* The rows that hold the url.
RowsOf(url) == {k \in 1..Len(st_rows) : st_rows[k].url = url}

\* The last upsert_article call and whether its url was stored before it.
LastUpsert == st_upserts[Len(st_upserts)]
WasStored == \E k \in 1..Len(st_prev) : st_prev[k].url = LastUpsert.url
StoredBefore == st_prev[CHOOSE k \in 1..Len(st_prev) :
                           st_prev[k].url = LastUpsert.url]
StoredNow == st_rows[CHOOSE k \in RowsOf(LastUpsert.url) : TRUE]

\* C24: the table holds at most one row per url; after an upsert of a url
\* that was stored, every column whose argument was not None holds the
\* argument (title and published_at included) and every column whose
\* argument was None holds what it held; and an upsert that repeats the one
\* before it leaves the table as that one left it.
C24_UpsertMerge ==
    /\ \A url \in StoreUrls : Cardinality(RowsOf(url)) <= 1
    /\ (st_upserts # <<>> /\ WasStored) =>
          /\ StoredNow.title = LastUpsert.title
          /\ StoredNow.published_at =
                COALESCE(isoformat(LastUpsert.published_at),
                         StoredBefore.published_at)
          /\ StoredNow.content =
                COALESCE(LastUpsert.content, StoredBefore.content)
    /\ (Len(st_upserts) >= 2
         /\ LastUpsert = st_upserts[Len(st_upserts) - 1]) =>
          st_rows = st_prev

(***************************************************************************)
(* Claims about the source's limit.                                        *)
(***************************************************************************)
\* C25: a fetch for a source with limit n > 0 returns at most n articles,
\* whatever the type of the source; with limit 0 it returns one article for
\* every item the endpoint has, however many they are.
C25_FetchLimit ==
    lm_pc = "fetched" =>
       /\ lm_limit > 0 => lm_returned <= lm_limit
       /\ lm_limit = 0 => lm_returned = lm_offered

(***************************************************************************)
(* Claims about the order in which the scrapes finish.                     *)
(***************************************************************************)
\* The elements of a list.
Elements(list) == {list[n] : n \in 1..Len(list)}

\* unique_articles of the run that scrapes the sources in list order.
ReferenceUnique ==
    unique_of(scrape_in_list_order(ga_results, 1, <<>>), ga_db)

\* Two candidates of different sources carry the same URL or the same title.
SharedAcrossSources ==
    \E j, k \in 1..MaxWorkers :
       /\ j # k
       /\ \E a \in Elements(ga_results[j]), b \in Elements(ga_results[k]) :
             a.url = b.url \/ a.title = b.title

TypeRank(type) ==
    CASE type = "application/rss+xml" -> 1
      [] type = "application/atom+xml" -> 2
      [] type = "application/rdf+xml" -> 3
      [] type = "text/xml" -> 4
      [] type = "application/xml" -> 5
      [] OTHER -> 0

\* The positions of the alternate-feed links of the page that carry an href,
\* and the URL each resolves to.
HeadCandidates ==
    {k \in 1..Len(dv_links) :
        dv_links[k].href # "" /\ TypeRank(dv_links[k].type) > 0}
HeadUrl(k) == urljoin(PageUrl, dv_links[k].href)

\* Link j comes before link k: in the document; by MIME type first and by
\* place in the document among links of one type.
DeclaredBefore(j, k) == j < k
TypeThenDeclaredBefore(j, k) ==
    \/ TypeRank(dv_links[j].type) < TypeRank(dv_links[k].type)
    \/ /\ TypeRank(dv_links[j].type) = TypeRank(dv_links[k].type)
       /\ j < k

\* When a head link of the fetched page validates: discovery returned the
\* first link in the order Before that validates, and the requests it made
\* after the GET of the page are the links up to that one, in that order.
HeadLinksValidatedInOrder(Before(_, _)) ==
    (/\ dv_pc = "discovered"
     /\ dv_page_ok
     /\ \E k \in HeadCandidates : Validates(HeadUrl(k))) =>
       \E k \in HeadCandidates :
          /\ Validates(HeadUrl(k))
          /\ \A j \in HeadCandidates : Before(j, k) => ~Validates(HeadUrl(j))
          /\ dv_feed = HeadUrl(k)
          /\ LET upto == {j \in HeadCandidates : j = k \/ Before(j, k)}
             IN /\ Len(FeedProbes) = Cardinality(upto)
                /\ \A j \in upto :
                      FeedProbes[Cardinality({i \in upto : Before(i, j)}) + 1]
                         = HeadUrl(j)

\* C27 as stated: the head links are validated in the order in which the
\* document declares them, whatever their MIME types, and discovery returns
\* the first declared link that validates.
C27_DeclarationOrder == HeadLinksValidatedInOrder(DeclaredBefore)

\* C27, amended: the head links are validated by MIME type in the order
\* rss, atom, rdf, text/xml, application/xml, and in the order of the
\* document among links of one type; discovery returns the first link in
\* that order that validates.
C27_TypeThenDeclarationOrder ==
    HeadLinksValidatedInOrder(TypeThenDeclaredBefore)

\* The page declares an atom link and then an rss link, both validate, and
\* discovery validated and returned the rss link alone.
C27_Witness ==
    /\ dv_pc = "discovered"
    /\ dv_page_ok
    /\ dv_links = <<[type |-> "application/atom+xml", href |-> "/custom.xml"],
                    [type |-> "application/rss+xml", href |-> "/feed"]>>
    /\ Validates(HeadUrl(1))
    /\ Validates(HeadUrl(2))
    /\ dv_feed = HeadUrl(2)
    /\ FeedProbes = <<HeadUrl(2)>>

(***************************************************************************)
(* Claims about discover_all.                                              *)
(***************************************************************************)
\* Every candidate of either strategy that validates.
ValidCandidates ==
    {u \in DeclaredFeeds : Validates(u)}
        \cup {WellKnown(k) : k \in ValidWellKnown}

\* C28: the list discover_all returned holds every declared head link that
\* validates and every well-known path that validates, and nothing else,
\* each once; and its first element is what discover returns for the same
\* page whenever discover finds a feed.
C28_DiscoverAllComplete ==
    dv_pc = "listed" =>
       /\ {dv_feeds[k] : k \in 1..Len(dv_feeds)} = ValidCandidates
       /\ \A j, k \in 1..Len(dv_feeds) : dv_feeds[j] = dv_feeds[k] => j = k
       /\ LET found == discover(dv_page_ok, dv_links, dv_web, PageUrl).feed
          IN found # NoUrl => (dv_feeds # <<>> /\ dv_feeds[1] = found)

(***************************************************************************)
(* Claims about the two sets of the deduplication engine.                  *)
(***************************************************************************)
\* C29: after every deduplicate call on the two shared sets, each set holds
\* all it held when the call started (the caller's own sets have grown);
\* existing_urls holds the URL of every candidate that has one, the
\* candidates the title pass dropped included; and existing_titles holds the
\* title hash of every article the call returned.
C29_IndexMonotone ==
    dedup_pc = "deduped" =>
       /\ pre_urls \subseteq existing_urls
       /\ pre_titles \subseteq existing_titles
       /\ seeded_urls(db_articles) \subseteq existing_urls
       /\ seeded_titles(db_articles) \subseteq existing_titles
       /\ \A k \in 1..Len(all_articles) :
             all_articles[k].url # "" => all_articles[k].url \in existing_urls
       /\ \A k \in 1..Len(unique_articles) :
             md5(unique_articles[k].title) \in existing_titles

\* The first call passed a candidate through the URL pass and dropped it in
\* the title pass: its URL, new to the set, is in existing_urls, and both
\* sets have grown.
C29_Witness ==
    /\ dedup_calls = 1
    /\ Len(url_pass) > Len(unique_articles)
    /\ unique_articles # <<>>
    /\ \E k \in 1..Len(url_pass) :
          /\ ~InSeq(url_pass[k], unique_articles)
          /\ url_pass[k].url \notin pre_urls
          /\ url_pass[k].url \in existing_urls
    /\ pre_urls # existing_urls
    /\ pre_titles # existing_titles

(***************************************************************************)
(* Claims about the output of a deduplicate call as a sublist of its       *)
(* input.                                                                  *)
(***************************************************************************)
\* The ways of finding unique_articles in all_articles: for each returned
\* article the position of a candidate equal to it, positions increasing.
Embeddings ==
    {f \in [1..Len(unique_articles) -> 1..Len(all_articles)] :
        /\ \A k \in 1..Len(unique_articles) :
              all_articles[f[k]] = unique_articles[k]
        /\ \A j, k \in 1..Len(unique_articles) : j < k => f[j] < f[k]}

\* The candidate at position i passed the URL pass of the last call: its URL
\* is non-empty, was not in the set and is carried by no earlier candidate.
PassedUrlPass(i) ==
    /\ all_articles[i].url # ""
    /\ all_articles[i].url \notin pre_urls
    /\ \A h \in 1..(i - 1) : all_articles[h].url # all_articles[i].url

\* C30 as stated: the returned list is a sublist of the candidates, in their
\* order; no returned article has an empty URL or an empty title; and no
\* returned article has a candidate before it in the list that shares its
\* URL or its title.
C30_FirstOccurrenceWins ==
    dedup_pc = "deduped" =>
       \E f \in Embeddings :
          \A k \in 1..Len(unique_articles) :
             /\ unique_articles[k].url # ""
             /\ unique_articles[k].title # ""
             /\ \A i \in 1..(f[k] - 1) :
                   /\ all_articles[i].url # unique_articles[k].url
                   /\ all_articles[i].title # unique_articles[k].title

\* C30, amended: the same, where the candidates before a returned article
\* that must not share its title are those that passed the URL pass.
C30_FirstOccurrenceWinsPerPass ==
    dedup_pc = "deduped" =>
       \E f \in Embeddings :
          \A k \in 1..Len(unique_articles) :
             /\ unique_articles[k].url # ""
             /\ unique_articles[k].title # ""
             /\ \A i \in 1..(f[k] - 1) :
                   /\ all_articles[i].url # unique_articles[k].url
                   /\ PassedUrlPass(i) =>
                         all_articles[i].title # unique_articles[k].title

\* The first candidate carries a URL the store already holds and the title
\* of the second; the call dropped the first in the URL pass and returned
\* the second.
C30_Witness ==
    /\ dedup_calls = 1
    /\ Len(all_articles) = 2
    /\ all_articles[1].url \in pre_urls
    /\ all_articles[1].title = all_articles[2].title
    /\ unique_articles = <<all_articles[2]>>

====
